---------------------------- MODULE Spec2Model ----------------------------
(***************************************************************************)
(* A model of the Gaby interpreter (umdis/gaby-interpreter): the lexer,    *)
(* the Pratt parser, the AST pretty-printer, the tree-walking evaluator    *)
(* with its environment chain, and the command-line driver.                *)
(*                                                                         *)
(* Text is a sequence of one-character strings.  Go pointers are modelled  *)
(* as indices into heaps (environments, instances) or as allocation ids.   *)
(***************************************************************************)
EXTENDS Integers, Sequences, FiniteSets, TLC

VARIABLES
    lexer,      \* LexSpec: the Lexer struct under test
    tokens,     \* LexSpec: the tokens NextToken has returned so far
    pc,         \* where the run stands
    cmdline,    \* the command line and the file it names, or the input stream
    ast,        \* what ParseProgram returned: the parser p and the Program node
    nextStmt,   \* evalProgram: the index of the statement evaluated next
    world,      \* the heap, standard output and the way the run has ended
    resultObj,  \* the object the evaluation has yielded so far
    exitCode,   \* the status the process ended with, -1 while it runs
    operands,   \* the inputs of the specifications of one function or method
    printed,    \* PrintSpec: the text String() returned
    reparsed,   \* PrintSpec: what ParseProgram returned for the printed text
    repl        \* ReplSpec: startRepl's scanner, line, more and prompt count

vars == <<lexer, tokens, pc, cmdline, ast, nextStmt, world, resultObj, exitCode,
          operands, printed, reparsed, repl>>

-----------------------------------------------------------------------------
(* Bounds of the model *)

\* NextToken calls explored after end-of-input was first returned
MaxExtraCalls == 2

\* width of the modelled machine integer (int64 in the code, scaled down)
IntBits == 8

-----------------------------------------------------------------------------
(* Characters *)

NUL == "NUL"    \* the byte 0 readChar stores at end of input

LowerLetters == {"a","b","c","d","e","f","g","h","i","j","k","l","m",
                 "n","o","p","q","r","s","t","u","v","w","x","y","z"}
UpperLetters == {"A","B","C","D","E","F","G","H","I","J","K","L","M",
                 "N","O","P","Q","R","S","T","U","V","W","X","Y","Z"}
Digits == {"0","1","2","3","4","5","6","7","8","9"}

isLetter(ch) == ch \in LowerLetters \cup UpperLetters \/ ch = "_"

isDigit(ch) == ch \in Digits

-----------------------------------------------------------------------------
(* Text helpers *)

RECURSIVE Concat(_)
\* the characters of a text as one string
Concat(chars) == IF chars = <<>> THEN "" ELSE Head(chars) \o Concat(Tail(chars))

-----------------------------------------------------------------------------
(* Lexer: token kinds and the keyword table *)

ILLEGAL == "ILLEGAL"
EOF == "EOF"
IDENT == "IDENT"
NUM == "NUM"
STRING_TOK == "STRING"    \* STRING of token.go (a reserved word here)

keywords ==
    {
       [word |-> <<"f", "u", "n">>, type |-> "FUNCTION"],
       [word |-> <<"c", "l", "a", "s", "e">>, type |-> "CLASS"],
       [word |-> <<"p", "r", "o", "t", "o">>, type |-> "PROTO"],
       [word |-> <<"s", "i">>, type |-> "IF"],
       [word |-> <<"s", "i", "n", "o">>, type |-> "ELSE"],
       [word |-> <<"c", "u", "a", "n", "d", "o">>, type |-> "WHEN"],
       [word |-> <<"d", "e", "v", "o", "l", "v", "e", "r">>, type |-> "RETURN"],
       [word |-> <<"v", "e", "r", "d", "a", "d">>, type |-> "TRUE"],
       [word |-> <<"f", "a", "l", "s", "o">>, type |-> "FALSE"],
       [word |-> <<"n", "u", "l", "o">>, type |-> "NULL"],
       [word |-> <<"m", "i", "e", "n", "t", "r", "a", "s">>, type |-> "WHILE"],
       [word |-> <<"p", "a", "r", "a">>, type |-> "FOR"],
       [word |-> <<"r", "e", "p", "e", "t", "i", "r">>, type |-> "REPEAT"],
       [word |-> <<"h", "a", "z">>, type |-> "DO"],
       [word |-> <<"r", "o", "m", "p", "e", "r">>, type |-> "BREAK"],
       [word |-> <<"c", "o", "n", "t", "i", "n", "u", "a", "r">>, type |-> "CONTINUE"],
       [word |-> <<"e", "v", "a", "l", "u", "a", "r">>, type |-> "SWITCH"],
       [word |-> <<"c", "a", "s", "o">>, type |-> "CASE"],
       [word |-> <<"d", "e", "f", "e", "c", "t", "o">>, type |-> "DEFAULT"],
       [word |-> <<"e", "n">>, type |-> "IN"],
       [word |-> <<"d", "e", "s", "d", "e">>, type |-> "FROM"],
       [word |-> <<"h", "a", "s", "t", "a">>, type |-> "TO"],
       [word |-> <<"y">>, type |-> "AND"],
       [word |-> <<"o">>, type |-> "OR"],
       [word |-> <<"n", "o">>, type |-> "NOT"],
       [word |-> <<"e", "s">>, type |-> "IS"],
       [word |-> <<"n", "o", "_", "e", "s">>, type |-> "ISNOT"],
       [word |-> <<"n", "u", "e", "v", "o">>, type |-> "NEW"],
       [word |-> <<"e", "x", "t", "i", "e", "n", "d", "e">>, type |-> "EXTENDS"],
       [word |-> <<"i", "m", "p", "l", "e", "m", "e", "n", "t", "a">>, type |-> "IMPLEMENTS"],
       [word |-> <<"g", "u", "a", "r", "d", "a">>, type |-> "VAR"],
       [word |-> <<"p", "u", "b", "l", "i", "c", "o">>, type |-> "PUBLIC"],
       [word |-> <<"p", "r", "i", "v", "a", "d", "o">>, type |-> "PRIVATE"],
       [word |-> <<"p", "r", "o", "t", "e", "g", "i", "d", "o">>, type |-> "PROTECTED"],
       [word |-> <<"e", "s", "t", "a", "t", "i", "c", "o">>, type |-> "STATIC"],
       [word |-> <<"f", "i", "n", "a", "l">>, type |-> "FINAL"],
       [word |-> <<"e", "s", "t", "o">>, type |-> "THIS"],
       [word |-> <<"s", "u", "p", "e", "r">>, type |-> "SUPER"],
       [word |-> <<"i", "n", "t", "e", "n", "t", "a", "r">>, type |-> "TRY"],
       [word |-> <<"a", "t", "r", "a", "p", "a", "r">>, type |-> "CATCH"],
       [word |-> <<"f", "i", "n", "a", "l", "m", "e", "n", "t", "e">>, type |-> "FINALLY"],
       [word |-> <<"l", "a", "n", "z", "a", "r">>, type |-> "THROW"]
    }

LookupIdent(ident) ==
    IF \E k \in keywords : k.word = ident
    THEN (CHOOSE k \in keywords : k.word = ident).type
    ELSE IDENT

-----------------------------------------------------------------------------
(* Lexer *)

Token(type, literal, line, column) ==
    [Type |-> type, Literal |-> literal, Line |-> line, Column |-> column]

\* Token{Type: tokenType, Literal: string(ch)}: Line and Column are left at
\* Go's zero value
newToken(tokenType, ch) == Token(tokenType, <<ch>>, 0, 0)

\* the text holds no byte 0
NoZeroByte(input) == \A k \in DOMAIN input : input[k] # NUL

\* input[from:to] of Go (0-based, to exclusive)
Slice(s, from, to) == SubSeq(s, from + 1, to)

\* a readChar that starts over at the first byte once it has reached the end
readChar_Rewind(l) ==
    LET ch == IF l.readPosition >= Len(l.input) THEN NUL
              ELSE l.input[l.readPosition + 1]
    IN [l EXCEPT !.ch = ch,
                 !.line = IF ch = "\n" THEN l.line + 1 ELSE l.line,
                 !.column = IF ch = "\n" THEN 0 ELSE l.column + 1,
                 !.position = l.readPosition,
                 !.readPosition = IF l.readPosition >= Len(l.input) THEN 0
                                  ELSE l.readPosition + 1]

readChar(l) ==
    LET ch == IF l.readPosition >= Len(l.input) THEN NUL
              ELSE l.input[l.readPosition + 1]
    IN [l EXCEPT !.ch = ch,
                 !.line = IF ch = "\n" THEN l.line + 1 ELSE l.line,
                 !.column = IF ch = "\n" THEN 0 ELSE l.column + 1,
                 !.position = l.readPosition,
                 !.readPosition = l.readPosition + 1]

\* a look-ahead that returns the current character again
peekChar_Stale(l) == l.ch

peekChar(l) ==
    IF l.readPosition >= Len(l.input) THEN NUL ELSE l.input[l.readPosition + 1]

LexerNew(input) ==
    readChar([input |-> input, position |-> 0, readPosition |-> 0,
              ch |-> NUL, line |-> 1, column |-> 0])

RECURSIVE skipWhitespace(_)
skipWhitespace(l) ==
    IF l.ch \in {" ", "\t", "\n", "\r"} THEN skipWhitespace(readChar(l)) ELSE l

RECURSIVE skipLineComment(_)
skipLineComment(l) ==
    IF l.ch # "\n" /\ l.ch # NUL THEN skipLineComment(readChar(l)) ELSE l

RECURSIVE skipBlockCommentLoop(_)
skipBlockCommentLoop(l) ==
    IF ~(l.ch = "*" /\ peekChar(l) = "/") /\ l.ch # NUL
    THEN skipBlockCommentLoop(readChar(l))
    ELSE l

skipBlockComment(l) ==
    LET closing(l1) == IF l1.ch # NUL THEN readChar(readChar(l1)) ELSE l1
    IN closing(skipBlockCommentLoop(readChar(readChar(l))))

RECURSIVE readIdentifierLoop(_, _)
readIdentifierLoop(l, position) ==
    IF isLetter(l.ch) \/ (l.position > position /\ isDigit(l.ch)) \/ l.ch = "_"
    THEN readIdentifierLoop(readChar(l), position)
    ELSE l

\* returns the lexer after the identifier and the identifier's text
readIdentifier(l) ==
    LET read(l1) == [l |-> l1, text |-> Slice(l.input, l.position, l1.position)]
    IN read(readIdentifierLoop(l, l.position))

RECURSIVE readNumberLoop(_, _)
readNumberLoop(l, hasDot) ==
    IF isDigit(l.ch) \/ (l.ch = "." /\ ~hasDot)
    THEN readNumberLoop(readChar(l), hasDot \/ l.ch = ".")
    ELSE l

readNumber(l) ==
    LET read(l1) == [l |-> l1, text |-> Slice(l.input, l.position, l1.position)]
    IN read(readNumberLoop(l, FALSE))

RECURSIVE readStringLoop(_, _)
readStringLoop(l, quote) ==
    IF l.ch # quote /\ l.ch # NUL
    THEN readStringLoop(readChar(IF l.ch = "\\" /\ peekChar(l) = quote
                                 THEN readChar(l) ELSE l), quote)
    ELSE l

readString(l, quote) ==
    LET read(position, l1) == [l |-> l1, text |-> Slice(l.input, position, l1.position)]
        opened(l0) == read(l0.position, readStringLoop(l0, quote))
    IN opened(readChar(l))

\* the operators that have a two-character form with '='
TwoCharType(ch) ==
    CASE ch = "=" -> "=="
      [] ch = "+" -> "+="
      [] ch = "-" -> "-="
      [] ch = "*" -> "*="
      [] ch = "/" -> "/="
      [] ch = "%" -> "%="
      [] ch = "^" -> "^="
      [] ch = "!" -> "!="
      [] ch = ":" -> ":="

SingleChars == {"<", ">", ",", ";", ".", "(", ")", "{", "}", "[", "]"}

\* one call of NextToken: the token returned and the lexer after it
RECURSIVE NextToken(_)
NextToken(l0) ==
    LET twoChar(l, l1) == [tok |-> Token(TwoCharType(l.ch), <<l.ch, l1.ch>>, 0, 0),
                           l |-> readChar(l1)]
        string(l, r) == [tok |-> Token(STRING_TOK, r.text, l.line, l.column),
                         l |-> readChar(r.l)]
        word(l, r) == [tok |-> Token(LookupIdent(r.text), r.text, l.line, l.column),
                       l |-> r.l]
        number(l, r) == [tok |-> Token(NUM, r.text, l.line, l.column), l |-> r.l]
        at(l) ==
            CASE l.ch = "/" /\ peekChar(l) = "/" -> NextToken(skipLineComment(l))
              [] l.ch = "/" /\ peekChar(l) = "*" -> NextToken(skipBlockComment(l))
              [] l.ch \in {"=", "+", "-", "*", "/", "%", "^", "!", ":"}
                    /\ ~(l.ch = "/" /\ peekChar(l) \in {"/", "*"}) ->
                    IF peekChar(l) = "="
                    THEN twoChar(l, readChar(l))
                    ELSE [tok |-> newToken(l.ch, l.ch), l |-> readChar(l)]
              [] l.ch \in SingleChars ->
                    [tok |-> newToken(l.ch, l.ch), l |-> readChar(l)]
              [] l.ch \in {"\"", "'"} -> string(l, readString(l, l.ch))
              [] l.ch = NUL ->
                    [tok |-> Token(EOF, <<>>, l.line, l.column), l |-> readChar(l)]
              [] OTHER ->
                    IF isLetter(l.ch) THEN word(l, readIdentifier(l))
                    ELSE IF isDigit(l.ch) THEN number(l, readNumber(l))
                    ELSE [tok |-> newToken(ILLEGAL, l.ch), l |-> readChar(l)]
    IN at(skipWhitespace(l0))

-----------------------------------------------------------------------------
(* Parser: precedences, parser state, errors *)

LOWEST == 1
ASSIGN == 2
LOGICAL == 3
EQUALS == 4
LESSGREATER == 5
SUM == 6
PRODUCT == 7
PREFIX == 8
CALL == 9
INDEX == 10
DOT == 11

\* the precedences map; a token kind that is no key has LOWEST
precedences(t) ==
    CASE t = "=" -> ASSIGN
      [] t \in {"==", "!="} -> EQUALS
      [] t \in {"<", ">"} -> LESSGREATER
      [] t \in {"+", "-"} -> SUM
      [] t \in {"/", "*", "%", "^"} -> PRODUCT
      [] t = "(" -> CALL
      [] t = "[" -> INDEX
      [] t = "." -> DOT
      [] t \in {"AND", "OR"} -> LOGICAL
      [] OTHER -> LOWEST

\* the token kinds with a registered prefix function
PrefixKinds ==
    {IDENT, NUM, STRING_TOK, "TRUE", "FALSE", "NULL", "!", "-", "(", "IF",
     "FUNCTION", "[", "{", "WHILE", "FOR", "CLASS", "NEW"}

\* the token kinds with a registered infix function
InfixKinds ==
    {"+", "-", "/", "*", "%", "^", "==", "!=", "<", ">", "(", "[", ".",
     "AND", "OR"}

\* a nil interface value or nil pointer
Nil == [kind |-> "nil"]

\* a nil *LetStatement stored in a Statement interface: not equal to nil
NilLetStatement == [kind |-> "nil*LetStatement"]

ZeroToken == Token("", <<>>, 0, 0)

\* The lexer as the parser holds it.  NextToken reads and writes nothing but
\* the lexer, so the tokens of its calls are those of the calls made one
\* after the other: [toks, l] is the tokens up to the first EOF that the
\* parser has not pulled yet, and the lexer after that EOF.  The texts the
\* parser is run on hold no zero byte, so that EOF is the end of the text.
Lexed_push(toks, r) == [toks |-> Append(toks, r.tok), l |-> r.l, tok |-> r.tok]

RECURSIVE Lexed_next(_)
Lexed_next(r) ==
    IF r.tok.Type = EOF THEN [toks |-> r.toks, l |-> r.l]
    ELSE Lexed_next(Lexed_push(r.toks, NextToken(r.l)))

Lexed(l) == Lexed_next(Lexed_push(<<>>, NextToken(l)))

\* p.l.NextToken(): [tok, l].  On a lexer past the end of the input ch is 0,
\* skipWhitespace reads nothing and the switch takes its case 0.
Pull(l) ==
    IF l.toks # <<>> THEN [tok |-> Head(l.toks), l |-> [l EXCEPT !.toks = Tail(@)]]
    ELSE [tok |-> Token(EOF, <<>>, l.l.line, l.l.column),
          l |-> [l EXCEPT !.l = readChar(@)]]

nextToken_advance(p, r) ==
    [p EXCEPT !.curToken = p.peekToken, !.peekToken = r.tok, !.l = r.l]

\* p.abort: "" while the parser runs, "panic" after a Go run-time panic,
\* "hang" when a loop of the parser repeats without consuming a token
nextToken(p) ==
    IF p.abort # "" THEN p ELSE nextToken_advance(p, Pull(p.l))

ParserNew(l) ==
    nextToken(nextToken([l |-> Lexed(l), errors |-> <<>>, curToken |-> ZeroToken,
                         peekToken |-> ZeroToken, abort |-> ""]))

curTokenIs(p, t) == p.curToken.Type = t

peekTokenIs(p, t) == p.peekToken.Type = t

peekError(p, t) ==
    [p EXCEPT !.errors = Append(@, [kind |-> "se esperaba token", want |-> t,
                                    got |-> p.peekToken.Type,
                                    line |-> p.peekToken.Line,
                                    column |-> p.peekToken.Column])]

noPrefixParseFnError(p, t) ==
    [p EXCEPT !.errors = Append(@, [kind |-> "no hay funcion de prefijo",
                                    want |-> "", got |-> t,
                                    line |-> p.curToken.Line,
                                    column |-> p.curToken.Column])]

numberError(p) ==
    [p EXCEPT !.errors = Append(@, [kind |-> "no se pudo analizar numero",
                                    want |-> "", got |-> p.curToken.Type,
                                    line |-> p.curToken.Line,
                                    column |-> p.curToken.Column])]

\* [p, ok]
expectPeek(p, t) ==
    IF peekTokenIs(p, t) THEN [p |-> nextToken(p), ok |-> TRUE]
    ELSE [p |-> peekError(p, t), ok |-> FALSE]

peekPrecedence(p) == precedences(p.peekToken.Type)

curPrecedence(p) == precedences(p.curToken.Type)

\* what every parse function returns: the parser after it and its node
PR(p, node) == [p |-> p, node |-> node]

-----------------------------------------------------------------------------
(* Parser: number literals *)

MaxInt == 2^(IntBits - 1) - 1
MinInt == -(2^(IntBits - 1))

DigitVal(ch) ==
    CASE ch = "0" -> 0 [] ch = "1" -> 1 [] ch = "2" -> 2 [] ch = "3" -> 3
      [] ch = "4" -> 4 [] ch = "5" -> 5 [] ch = "6" -> 6 [] ch = "7" -> 7
      [] ch = "8" -> 8 [] ch = "9" -> 9

RECURSIVE DigitsValue(_, _, _)
\* the value of a digit string in a base
DigitsValue(digits, base, acc) ==
    IF digits = <<>> THEN acc
    ELSE DigitsValue(Tail(digits), base, acc * base + DigitVal(Head(digits)))

\* strconv.ParseInt(s, 0, 64) on a string of decimal digits: a leading 0
\* selects base 8; [ok, value]
ParseInt(s) ==
    LET octal == Len(s) > 1 /\ Head(s) = "0"
        bad == octal /\ \E i \in DOMAIN s : s[i] \in {"8", "9"}
        v == IF bad THEN 0
             ELSE IF octal THEN DigitsValue(Tail(s), 8, 0)
             ELSE DigitsValue(s, 10, 0)
    IN [ok |-> ~bad /\ v <= MaxInt, value |-> v]

\* the unit of the modelled float64: floats are kept in tenths
FloatScale == 10

\* strconv.ParseFloat on digits with one '.': the value in tenths (digits
\* after the first fractional digit are dropped); [ok, value]
ParseFloat(s) ==
    LET dot == CHOOSE i \in DOMAIN s : s[i] = "."
        whole == DigitsValue(SubSeq(s, 1, dot - 1), 10, 0)
        frac == IF dot < Len(s) THEN DigitVal(s[dot + 1]) ELSE 0
    IN [ok |-> TRUE, value |-> whole * FloatScale + frac]

-----------------------------------------------------------------------------
(* Parser: statements and expressions.  Every parse function takes the     *)
(* parser and returns PR(parser after it, node).  A function F of several  *)
(* steps is written as operators F_step above it, the last step first;     *)
(* each takes F's arguments and then what the steps before it produced.    *)

Identifier(tok) == [kind |-> "Identifier", Token |-> tok, Value |-> tok.Literal]

RECURSIVE parseStatement(_), parseLetStatement(_), parseReturnStatement(_),
          parseExpressionStatement(_), parseExpression(_, _),
          infixLoop(_, _, _), prefixParse(_), infixParse(_, _),
          parsePrefixExpression(_), parseInfixExpression(_, _),
          parseGroupedExpression(_), parseIfExpression(_),
          parseBlockStatement(_), blockLoop(_, _), parseFunctionLiteral(_),
          parseCallExpression(_, _), parseExpressionList(_, _),
          expressionListLoop(_, _), parseArrayLiteral(_),
          parseIndexExpression(_, _), parseHashLiteral(_), hashLoop(_, _),
          parseWhileExpression(_), parseForExpression(_),
          parseClassLiteral(_), classBodyLoop(_, _, _), parseNewExpression(_)

parseStatement(p) ==
    CASE p.curToken.Type = "VAR" -> parseLetStatement(p)
      [] p.curToken.Type = "RETURN" -> parseReturnStatement(p)
      [] OTHER -> parseExpressionStatement(p)

parseLetStatement_value(p, name, v) ==
    PR(IF peekTokenIs(v.p, ";") THEN nextToken(v.p) ELSE v.p,
       [kind |-> "LetStatement", Token |-> p.curToken,
        Name |-> name, Value |-> v.node])

parseLetStatement_assign(p, name, e2) ==
    IF ~e2.ok THEN PR(e2.p, NilLetStatement)
    ELSE parseLetStatement_value(p, name, parseExpression(nextToken(e2.p), LOWEST))

parseLetStatement_ident(p, e1) ==
    IF ~e1.ok THEN PR(e1.p, NilLetStatement)
    ELSE parseLetStatement_assign(p, Identifier(e1.p.curToken), expectPeek(e1.p, "="))

parseLetStatement(p) ==
    parseLetStatement_ident(p, expectPeek(p, IDENT))

parseReturnStatement_value(p, v) ==
    PR(IF peekTokenIs(v.p, ";") THEN nextToken(v.p) ELSE v.p,
       [kind |-> "ReturnStatement", Token |-> p.curToken,
        ReturnValue |-> v.node])

parseReturnStatement_after(p, p1) ==
    IF curTokenIs(p1, ";")
    THEN PR(p1, [kind |-> "ReturnStatement", Token |-> p.curToken,
                 ReturnValue |-> Nil])
    ELSE parseReturnStatement_value(p, parseExpression(p1, LOWEST))

parseReturnStatement(p) ==
    parseReturnStatement_after(p, nextToken(p))

parseExpressionStatement_value(p, v) ==
    PR(IF peekTokenIs(v.p, ";") THEN nextToken(v.p) ELSE v.p,
       [kind |-> "ExpressionStatement", Token |-> p.curToken,
        Expression |-> v.node])

parseExpressionStatement(p) ==
    parseExpressionStatement_value(p, parseExpression(p, LOWEST))

parseExpression_loop(p, precedence, left) ==
    infixLoop(left.p, left.node, precedence)

parseExpression(p, precedence) ==
    IF p.curToken.Type \notin PrefixKinds
    THEN PR(noPrefixParseFnError(p, p.curToken.Type), Nil)
    ELSE parseExpression_loop(p, precedence, prefixParse(p))

\* the loop of parseExpression
infixLoop_loop(p, leftExp, precedence, r) ==
    infixLoop(r.p, r.node, precedence)

infixLoop(p, leftExp, precedence) ==
    IF p.abort = "" /\ ~peekTokenIs(p, ";") /\ precedence < peekPrecedence(p)
    THEN IF p.peekToken.Type \notin InfixKinds
         THEN PR(p, leftExp)
         ELSE infixLoop_loop(p, leftExp, precedence, infixParse(nextToken(p), leftExp))
    ELSE PR(p, leftExp)

parseIdentifier(p) == PR(p, Identifier(p.curToken))

parseNumberLiteral_float(p, f) ==
    IF ~f.ok THEN PR(numberError(p), Nil)
    ELSE PR(p, [kind |-> "FloatLiteral", Token |-> p.curToken,
                Value |-> f.value])

parseNumberLiteral_integer(p, n) ==
    IF ~n.ok THEN PR(numberError(p), Nil)
    ELSE PR(p, [kind |-> "IntegerLiteral", Token |-> p.curToken,
                Value |-> n.value])

parseNumberLiteral(p) ==
    IF \E i \in DOMAIN p.curToken.Literal : p.curToken.Literal[i] = "."
    THEN parseNumberLiteral_float(p, ParseFloat(p.curToken.Literal))
    ELSE parseNumberLiteral_integer(p, ParseInt(p.curToken.Literal))

parseStringLiteral(p) ==
    PR(p, [kind |-> "StringLiteral", Token |-> p.curToken,
           Value |-> p.curToken.Literal])

parseBooleanLiteral(p) ==
    PR(p, [kind |-> "BooleanLiteral", Token |-> p.curToken,
           Value |-> curTokenIs(p, "TRUE")])

parseNullLiteral(p) == PR(p, [kind |-> "NullLiteral", Token |-> p.curToken])

\* the prefixParseFns map
prefixParse(p) ==
    CASE p.curToken.Type = IDENT -> parseIdentifier(p)
      [] p.curToken.Type = NUM -> parseNumberLiteral(p)
      [] p.curToken.Type = STRING_TOK -> parseStringLiteral(p)
      [] p.curToken.Type \in {"TRUE", "FALSE"} -> parseBooleanLiteral(p)
      [] p.curToken.Type = "NULL" -> parseNullLiteral(p)
      [] p.curToken.Type \in {"!", "-"} -> parsePrefixExpression(p)
      [] p.curToken.Type = "(" -> parseGroupedExpression(p)
      [] p.curToken.Type = "IF" -> parseIfExpression(p)
      [] p.curToken.Type = "FUNCTION" -> parseFunctionLiteral(p)
      [] p.curToken.Type = "[" -> parseArrayLiteral(p)
      [] p.curToken.Type = "{" -> parseHashLiteral(p)
      [] p.curToken.Type = "WHILE" -> parseWhileExpression(p)
      [] p.curToken.Type = "FOR" -> parseForExpression(p)
      [] p.curToken.Type = "CLASS" -> parseClassLiteral(p)
      [] p.curToken.Type = "NEW" -> parseNewExpression(p)

parseDotExpression_property(p, object, e) ==
    IF ~e.ok THEN PR(e.p, Nil)
    ELSE PR(e.p, [kind |-> "DotExpression", Token |-> p.curToken,
                  Object |-> object,
                  Property |-> Identifier(e.p.curToken)])

parseDotExpression(p, object) ==
    parseDotExpression_property(p, object, expectPeek(p, IDENT))

\* the infixParseFns map
infixParse(p, left) ==
    CASE p.curToken.Type = "(" -> parseCallExpression(p, left)
      [] p.curToken.Type = "[" -> parseIndexExpression(p, left)
      [] p.curToken.Type = "." -> parseDotExpression(p, left)
      [] OTHER -> parseInfixExpression(p, left)

parsePrefixExpression_right(p, r) ==
    PR(r.p, [kind |-> "PrefixExpression", Token |-> p.curToken,
             Operator |-> Concat(p.curToken.Literal), Right |-> r.node])

parsePrefixExpression(p) ==
    parsePrefixExpression_right(p, parseExpression(nextToken(p), PREFIX))

parseInfixExpression_right(p, left, r) ==
    PR(r.p, [kind |-> "InfixExpression", Token |-> p.curToken,
             Left |-> left, Operator |-> Concat(p.curToken.Literal),
             Right |-> r.node])

parseInfixExpression(p, left) ==
    parseInfixExpression_right(p, left, parseExpression(nextToken(p), curPrecedence(p)))

parseGroupedExpression_close(p, exp, e) ==
    IF ~e.ok THEN PR(e.p, Nil) ELSE PR(e.p, exp)

parseGroupedExpression_inner(p, r) ==
    parseGroupedExpression_close(p, r.node, expectPeek(r.p, ")"))

parseGroupedExpression(p) ==
    parseGroupedExpression_inner(p, parseExpression(nextToken(p), LOWEST))

parseIfExpression_node(p, c, cons, alt) ==
    [kind |-> "IfExpression", Token |-> p.curToken, Condition |-> c,
     Consequence |-> cons, Alternative |-> alt]

parseIfExpression_alternative(p, c, cons, alt) ==
    PR(alt.p, parseIfExpression_node(p, c, cons, alt.node))

parseIfExpression_elseBrace(p, c, cons, e4) ==
    IF ~e4.ok THEN PR(e4.p, Nil)
    ELSE parseIfExpression_alternative(p, c, cons, parseBlockStatement(e4.p))

parseIfExpression_consequence(p, c, cons) ==
    IF ~peekTokenIs(cons.p, "ELSE") THEN PR(cons.p, parseIfExpression_node(p, c, cons.node, Nil))
    ELSE parseIfExpression_elseBrace(p, c, cons.node, expectPeek(nextToken(cons.p), "{"))

parseIfExpression_brace(p, c, e3) ==
    IF ~e3.ok THEN PR(e3.p, Nil)
    ELSE parseIfExpression_consequence(p, c, parseBlockStatement(e3.p))

parseIfExpression_close(p, c, e2) ==
    IF ~e2.ok THEN PR(e2.p, Nil) ELSE parseIfExpression_brace(p, c, expectPeek(e2.p, "{"))

parseIfExpression_condition(p, c) ==
    parseIfExpression_close(p, c.node, expectPeek(c.p, ")"))

parseIfExpression_open(p, e1) ==
    IF ~e1.ok THEN PR(e1.p, Nil)
    ELSE parseIfExpression_condition(p, parseExpression(nextToken(e1.p), LOWEST))

parseIfExpression(p) ==
    parseIfExpression_open(p, expectPeek(p, "("))

\* the loop of parseBlockStatement: [p, list]
blockLoop_loop(p, stmts, r) ==
    blockLoop(nextToken(r.p),
              IF r.node # Nil THEN Append(stmts, r.node) ELSE stmts)

blockLoop(p, stmts) ==
    IF ~curTokenIs(p, "}") /\ ~curTokenIs(p, EOF) /\ p.abort = ""
    THEN blockLoop_loop(p, stmts, parseStatement(p))
    ELSE [p |-> p, list |-> stmts]

parseBlockStatement_block(p, r) ==
    PR(r.p, [kind |-> "BlockStatement", Token |-> p.curToken,
             Statements |-> r.list])

parseBlockStatement(p) ==
    parseBlockStatement_block(p, blockLoop(nextToken(p), <<>>))

RECURSIVE parametersLoop(_, _)
\* the loop of parseFunctionParameters: [p, list]
parametersLoop_loop(p, identifiers, p2) ==
    parametersLoop(p2, Append(identifiers, Identifier(p2.curToken)))

parametersLoop(p, identifiers) ==
    IF peekTokenIs(p, ",") /\ p.abort = ""
    THEN parametersLoop_loop(p, identifiers, nextToken(nextToken(p)))
    ELSE [p |-> p, list |-> identifiers]

\* [p, list]; the nil slice of a failed list is the empty list
parseFunctionParameters_close(p, list, e) ==
    IF ~e.ok THEN [p |-> e.p, list |-> <<>>]
    ELSE [p |-> e.p, list |-> list]

parseFunctionParameters_rest(p, r) ==
    parseFunctionParameters_close(p, r.list, expectPeek(r.p, ")"))

parseFunctionParameters_first(p, p1) ==
    parseFunctionParameters_rest(p, parametersLoop(p1, <<Identifier(p1.curToken)>>))

parseFunctionParameters(p) ==
    IF peekTokenIs(p, ")") THEN [p |-> nextToken(p), list |-> <<>>]
    ELSE parseFunctionParameters_first(p, nextToken(p))

parseFunctionLiteral_body(p, name, params, b) ==
    PR(b.p, [kind |-> "FunctionLiteral", Token |-> p.curToken,
             Parameters |-> params, Body |-> b.node, Name |-> name])

parseFunctionLiteral_brace(p, name, params, e2) ==
    IF ~e2.ok THEN PR(e2.p, Nil)
    ELSE parseFunctionLiteral_body(p, name, params, parseBlockStatement(e2.p))

parseFunctionLiteral_parameters(p, name, params) ==
    parseFunctionLiteral_brace(p, name, params.list, expectPeek(params.p, "{"))

parseFunctionLiteral_open(p, name, e1) ==
    IF ~e1.ok THEN PR(e1.p, Nil)
    ELSE parseFunctionLiteral_parameters(p, name, parseFunctionParameters(e1.p))

parseFunctionLiteral_named(p, p1) ==
    parseFunctionLiteral_open(p, p1.curToken.Literal, expectPeek(p1, "("))

parseFunctionLiteral(p) ==
    IF peekTokenIs(p, IDENT) THEN parseFunctionLiteral_named(p, nextToken(p))
    ELSE parseFunctionLiteral_open(p, <<>>, expectPeek(p, "("))

parseCallExpression_arguments(p, function, r) ==
    PR(r.p, [kind |-> "CallExpression", Token |-> p.curToken,
             Function |-> function, Arguments |-> r.list])

parseCallExpression(p, function) ==
    parseCallExpression_arguments(p, function, parseExpressionList(p, ")"))

\* the loop of parseExpressionList: [p, list]
expressionListLoop_loop(p, list, r) ==
    expressionListLoop(r.p, Append(list, r.node))

expressionListLoop(p, list) ==
    IF peekTokenIs(p, ",") /\ p.abort = ""
    THEN expressionListLoop_loop(p, list, parseExpression(nextToken(nextToken(p)), LOWEST))
    ELSE [p |-> p, list |-> list]

\* [p, list]; the nil slice of a failed list is the empty list
parseExpressionList_close(p, end, list, e) ==
    IF ~e.ok THEN [p |-> e.p, list |-> <<>>]
    ELSE [p |-> e.p, list |-> list]

parseExpressionList_rest(p, end, r) ==
    parseExpressionList_close(p, end, r.list, expectPeek(r.p, end))

parseExpressionList_first(p, end, f) ==
    parseExpressionList_rest(p, end, expressionListLoop(f.p, <<f.node>>))

parseExpressionList(p, end) ==
    IF peekTokenIs(p, end) THEN [p |-> nextToken(p), list |-> <<>>]
    ELSE parseExpressionList_first(p, end, parseExpression(nextToken(p), LOWEST))

parseArrayLiteral_elements(p, r) ==
    PR(r.p, [kind |-> "ArrayLiteral", Token |-> p.curToken,
             Elements |-> r.list])

parseArrayLiteral(p) ==
    parseArrayLiteral_elements(p, parseExpressionList(p, "]"))

parseIndexExpression_close(p, left, index, e) ==
    IF ~e.ok THEN PR(e.p, Nil)
    ELSE PR(e.p, [kind |-> "IndexExpression", Token |-> p.curToken,
                  Left |-> left, Index |-> index])

parseIndexExpression_index(p, left, r) ==
    parseIndexExpression_close(p, left, r.node, expectPeek(r.p, "]"))

parseIndexExpression(p, left) ==
    parseIndexExpression_index(p, left, parseExpression(nextToken(p), LOWEST))

\* one key: value pair of a hash literal, the parser standing on the key's
\* first token: [p, ok, pair]
parseHashPair_value(p, k, v) ==
    [p |-> v.p, ok |-> TRUE, pair |-> [key |-> k, value |-> v.node]]

parseHashPair_colon(p, k, e) ==
    IF ~e.ok THEN [p |-> e.p, ok |-> FALSE, pair |-> <<>>]
    ELSE parseHashPair_value(p, k, parseExpression(nextToken(e.p), LOWEST))

parseHashPair_key(p, k) ==
    parseHashPair_colon(p, k.node, expectPeek(k.p, ":"))

parseHashPair(p) ==
    parseHashPair_key(p, parseExpression(p, LOWEST))

\* the loop of parseHashLiteral: [p, ok, list]
hashLoop_loop(p, pairs, r) ==
    IF ~r.ok THEN [p |-> r.p, ok |-> FALSE, list |-> pairs]
    ELSE hashLoop(r.p, Append(pairs, r.pair))

hashLoop(p, pairs) ==
    IF peekTokenIs(p, ",") /\ p.abort = ""
    THEN hashLoop_loop(p, pairs, parseHashPair(nextToken(nextToken(p))))
    ELSE [p |-> p, ok |-> TRUE, list |-> pairs]

\* Pairs holds the pairs in source order; the Go map has no order
parseHashLiteral_close(p, pairs, e) ==
    IF ~e.ok THEN PR(e.p, Nil)
    ELSE PR(e.p, [kind |-> "HashLiteral", Token |-> p.curToken,
                  Pairs |-> pairs])

parseHashLiteral_rest(p, r) ==
    IF ~r.ok THEN PR(r.p, Nil) ELSE parseHashLiteral_close(p, r.list, expectPeek(r.p, "}"))

parseHashLiteral_first(p, f) ==
    IF ~f.ok THEN PR(f.p, Nil) ELSE parseHashLiteral_rest(p, hashLoop(f.p, <<f.pair>>))

parseHashLiteral(p) ==
    IF peekTokenIs(p, "}")
    THEN PR(nextToken(p), [kind |-> "HashLiteral", Token |-> p.curToken,
                           Pairs |-> <<>>])
    ELSE parseHashLiteral_first(p, parseHashPair(nextToken(p)))

parseWhileExpression_body(p, c, b) ==
    PR(b.p, [kind |-> "WhileExpression", Token |-> p.curToken,
             Condition |-> c, Body |-> b.node])

parseWhileExpression_brace(p, c, e3) ==
    IF ~e3.ok THEN PR(e3.p, Nil) ELSE parseWhileExpression_body(p, c, parseBlockStatement(e3.p))

parseWhileExpression_close(p, c, e2) ==
    IF ~e2.ok THEN PR(e2.p, Nil) ELSE parseWhileExpression_brace(p, c, expectPeek(e2.p, "{"))

parseWhileExpression_condition(p, c) ==
    parseWhileExpression_close(p, c.node, expectPeek(c.p, ")"))

parseWhileExpression_open(p, e1) ==
    IF ~e1.ok THEN PR(e1.p, Nil)
    ELSE parseWhileExpression_condition(p, parseExpression(nextToken(e1.p), LOWEST))

parseWhileExpression(p) ==
    parseWhileExpression_open(p, expectPeek(p, "("))

parseForExpression_body(p, init, cond, update, b) ==
    PR(b.p, [kind |-> "ForExpression", Token |-> p.curToken,
             Init |-> init, Condition |-> cond, Update |-> update,
             Body |-> b.node])

parseForExpression_brace(p, init, cond, update, e5) ==
    IF ~e5.ok THEN PR(e5.p, Nil)
    ELSE parseForExpression_body(p, init, cond, update, parseBlockStatement(e5.p))

parseForExpression_close(p, init, cond, update, e4) ==
    IF ~e4.ok THEN PR(e4.p, Nil)
    ELSE parseForExpression_brace(p, init, cond, update, expectPeek(e4.p, "{"))

parseForExpression_updated(p, init, cond, u) ==
    parseForExpression_close(p, init, cond, u.node, expectPeek(u.p, ")"))

\* Actualizacion
parseForExpression_update(p, init, cond, p3) ==
    parseForExpression_updated(p, init, cond,
            IF ~curTokenIs(p3, ")") THEN parseStatement(p3) ELSE PR(p3, Nil))

parseForExpression_semicolon2(p, init, cond, e3) ==
    IF ~e3.ok THEN PR(e3.p, Nil) ELSE parseForExpression_update(p, init, cond, nextToken(e3.p))

parseForExpression_conditioned(p, init, c) ==
    parseForExpression_semicolon2(p, init, c.node,
               IF ~curTokenIs(c.p, ";") THEN expectPeek(c.p, ";")
               ELSE [p |-> c.p, ok |-> TRUE])

\* Condicion
parseForExpression_condition(p, init, p2) ==
    parseForExpression_conditioned(p, init,
                IF ~curTokenIs(p2, ";") THEN parseExpression(p2, LOWEST)
                ELSE PR(p2, Nil))

parseForExpression_semicolon1(p, init, e2) ==
    IF ~e2.ok THEN PR(e2.p, Nil) ELSE parseForExpression_condition(p, init, nextToken(e2.p))

parseForExpression_initialised(p, i) ==
    parseForExpression_semicolon1(p, i.node,
               IF ~curTokenIs(i.p, ";") THEN expectPeek(i.p, ";")
               ELSE [p |-> i.p, ok |-> TRUE])

\* Inicializacion
parseForExpression_init(p, p1) ==
    parseForExpression_initialised(p, IF ~curTokenIs(p1, ";") THEN parseStatement(p1)
                ELSE PR(p1, Nil))

parseForExpression_open(p, e1) ==
    IF ~e1.ok THEN PR(e1.p, Nil) ELSE parseForExpression_init(p, nextToken(e1.p))

parseForExpression(p) ==
    parseForExpression_open(p, expectPeek(p, "("))

RECURSIVE interfacesLoop(_, _)
\* the loop over "implementa I1, I2": [p, ok, list]
interfacesLoop_loop(p, list, e) ==
    IF ~e.ok THEN [p |-> e.p, ok |-> FALSE, list |-> list]
    ELSE interfacesLoop(e.p, Append(list, Identifier(e.p.curToken)))

interfacesLoop(p, list) ==
    IF peekTokenIs(p, ",") /\ p.abort = ""
    THEN interfacesLoop_loop(p, list, expectPeek(nextToken(p), IDENT))
    ELSE [p |-> p, ok |-> TRUE, list |-> list]

\* the loop over the class body: [p, properties, methods].  A failed method
\* literal is a nil interface, whose type assertion panics; a failed
\* declaration leaves the parser on the same token, so the loop repeats
\* forever.
classBodyLoop_method(p, properties, methods, r) ==
    IF r.node = Nil
    THEN [p |-> [r.p EXCEPT !.abort = "panic"],
          properties |-> properties, methods |-> methods]
    ELSE classBodyLoop(r.p, properties, Append(methods, r.node))

classBodyLoop_property(p, properties, methods, r) ==
    IF r.p.curToken = p.curToken /\ r.p.l = p.l
    THEN [p |-> [r.p EXCEPT !.abort = "hang"],
          properties |-> Append(properties, r.node),
          methods |-> methods]
    ELSE classBodyLoop(r.p, Append(properties, r.node), methods)

classBodyLoop(p, properties, methods) ==
    IF ~curTokenIs(p, "}") /\ ~curTokenIs(p, EOF) /\ p.abort = ""
    THEN IF curTokenIs(p, "FUNCTION") THEN classBodyLoop_method(p, properties, methods, parseFunctionLiteral(p))
         ELSE IF curTokenIs(p, "VAR") THEN classBodyLoop_property(p, properties, methods, parseLetStatement(p))
         ELSE classBodyLoop(nextToken(p), properties, methods)
    ELSE [p |-> p, properties |-> properties, methods |-> methods]

parseClassLiteral_body(p, name, parent, intfs, b) ==
    PR(b.p, [kind |-> "ClassLiteral", Token |-> p.curToken,
             Name |-> name, Parent |-> parent, Interfaces |-> intfs,
             Properties |-> b.properties, Methods |-> b.methods])

\* Cuerpo de la clase
parseClassLiteral_brace(p, name, parent, intfs, e4) ==
    IF ~e4.ok THEN PR(e4.p, Nil)
    ELSE parseClassLiteral_body(p, name, parent, intfs,
              classBodyLoop(nextToken(e4.p), <<>>, <<>>))

parseClassLiteral_interfaces(p, name, parent, i) ==
    IF ~i.ok THEN PR(i.p, Nil)
    ELSE parseClassLiteral_brace(p, name, parent, i.list, expectPeek(i.p, "{"))

parseClassLiteral_firstInterface(p, name, parent, e3) ==
    IF ~e3.ok THEN PR(e3.p, Nil)
    ELSE parseClassLiteral_interfaces(p, name, parent,
                    interfacesLoop(e3.p, <<Identifier(e3.p.curToken)>>))

\* Implementacion de interfaces
parseClassLiteral_implements(p, name, parent, p2) ==
    IF peekTokenIs(p2, "IMPLEMENTS")
    THEN parseClassLiteral_firstInterface(p, name, parent, expectPeek(nextToken(p2), IDENT))
    ELSE parseClassLiteral_brace(p, name, parent, <<>>, expectPeek(p2, "{"))

parseClassLiteral_parentName(p, name, e2) ==
    IF ~e2.ok THEN PR(e2.p, Nil)
    ELSE parseClassLiteral_implements(p, name, Identifier(e2.p.curToken), e2.p)

\* Herencia
parseClassLiteral_extends(p, name, p1) ==
    IF peekTokenIs(p1, "EXTENDS")
    THEN parseClassLiteral_parentName(p, name, expectPeek(nextToken(p1), IDENT))
    ELSE parseClassLiteral_implements(p, name, Nil, p1)

parseClassLiteral_className(p, e1) ==
    IF ~e1.ok THEN PR(e1.p, Nil)
    ELSE parseClassLiteral_extends(p, Identifier(e1.p.curToken), e1.p)

parseClassLiteral(p) ==
    parseClassLiteral_className(p, expectPeek(p, IDENT))

parseNewExpression_arguments(p, class, args) ==
    PR(args.p, [kind |-> "NewExpression", Token |-> p.curToken,
                Class |-> class, Arguments |-> args.list])

parseNewExpression_class(p, c) ==
    parseNewExpression_arguments(p, c.node,
              IF peekTokenIs(c.p, "(")
              THEN parseExpressionList(nextToken(c.p), ")")
              ELSE [p |-> c.p, list |-> <<>>])

parseNewExpression(p) ==
    parseNewExpression_class(p, parseExpression(nextToken(p), LOWEST))

RECURSIVE programLoop(_, _)
\* the loop of ParseProgram: [p, list]
programLoop_loop(p, stmts, r) ==
    programLoop(nextToken(r.p),
                IF r.node # Nil THEN Append(stmts, r.node) ELSE stmts)

programLoop(p, stmts) ==
    IF ~curTokenIs(p, EOF) /\ p.abort = ""
    THEN programLoop_loop(p, stmts, parseStatement(p))
    ELSE [p |-> p, list |-> stmts]

\* PR(parser after the program, Program)
ParseProgram_program(p, r) ==
    PR(r.p, [kind |-> "Program", Statements |-> r.list])

ParseProgram(p) ==
    ParseProgram_program(p, programLoop(p, <<>>))

\* lexer.New, parser.New and ParseProgram on a source text
ParseSource(input) == ParseProgram(ParserNew(LexerNew(input)))

-----------------------------------------------------------------------------
(* AST: the String() pretty-printer.  The result is a text; a nil pointer  *)
(* dereferenced on the way (a Go panic) leaves the element PANIC in it.    *)

PANIC == "<panic>"

RECURSIVE Flatten(_)
\* the concatenation of a sequence of texts
Flatten(texts) == IF texts = <<>> THEN <<>> ELSE Head(texts) \o Flatten(Tail(texts))

RECURSIVE Join(_, _)
\* strings.Join
Join(texts, sep) ==
    IF texts = <<>> THEN <<>>
    ELSE IF Len(texts) = 1 THEN texts[1]
    ELSE texts[1] \o sep \o Join(Tail(texts), sep)

Reverse(s) == [i \in 1..Len(s) |-> s[Len(s) + 1 - i]]

CommaSpace == <<",", " ">>

RECURSIVE String(_, _)
\* node.String(); rev chooses the order in which a hash literal's map is
\* iterated (forward or backward in source order)
String(node, rev) ==
    LET k == node.kind
        S(n) == String(n, rev)
        list(nodes) == [i \in 1..Len(nodes) |-> S(nodes[i])]
    IN CASE k = "Program" -> Flatten(list(node.Statements))
         [] k = "Identifier" -> node.Value
         [] k = "ExpressionStatement" ->
                IF node.Expression # Nil THEN S(node.Expression) ELSE <<>>
         [] k = "LetStatement" ->
                node.Token.Literal \o <<" ">> \o S(node.Name) \o <<" ", "=", " ">>
                \o (IF node.Value # Nil THEN S(node.Value) ELSE <<>>) \o <<";">>
         [] k = "ReturnStatement" ->
                node.Token.Literal \o <<" ">>
                \o (IF node.ReturnValue # Nil THEN S(node.ReturnValue) ELSE <<>>)
                \o <<";">>
         [] k = "BlockStatement" ->
                <<"{", " ">> \o Flatten(list(node.Statements)) \o <<" ", "}">>
         [] k \in {"IntegerLiteral", "FloatLiteral", "BooleanLiteral"} ->
                node.Token.Literal
         [] k = "StringLiteral" -> <<"\"">> \o node.Value \o <<"\"">>
         [] k = "NullLiteral" -> <<"n", "u", "l", "o">>
         [] k = "PrefixExpression" ->
                <<"(">> \o node.Token.Literal \o S(node.Right) \o <<")">>
         [] k = "InfixExpression" ->
                <<"(">> \o S(node.Left) \o <<" ">> \o node.Token.Literal
                \o <<" ">> \o S(node.Right) \o <<")">>
         [] k = "IfExpression" ->
                <<"s", "i", " ">> \o S(node.Condition) \o <<" ">>
                \o S(node.Consequence)
                \o (IF node.Alternative # Nil
                    THEN <<" ", "s", "i", "n", "o", " ">> \o S(node.Alternative)
                    ELSE <<>>)
         [] k = "WhileExpression" ->
                <<"m", "i", "e", "n", "t", "r", "a", "s", " ">>
                \o S(node.Condition) \o <<" ">> \o S(node.Body)
         [] k = "ForExpression" ->
                <<"p", "a", "r", "a", " ">>
                \o (IF node.Init # Nil THEN S(node.Init) ELSE <<>>) \o <<";", " ">>
                \o (IF node.Condition # Nil THEN S(node.Condition) ELSE <<>>)
                \o <<";", " ">>
                \o (IF node.Update # Nil THEN S(node.Update) ELSE <<>>) \o <<" ">>
                \o S(node.Body)
         [] k = "FunctionLiteral" ->
                node.Token.Literal
                \o (IF node.Name # <<>> THEN <<" ">> \o node.Name ELSE <<>>)
                \o <<"(">> \o Join(list(node.Parameters), CommaSpace)
                \o <<")", " ">> \o S(node.Body)
         [] k = "CallExpression" ->
                S(node.Function) \o <<"(">>
                \o Join(list(node.Arguments), CommaSpace) \o <<")">>
         [] k = "IndexExpression" ->
                <<"(">> \o S(node.Left) \o <<"[">> \o S(node.Index) \o <<"]", ")">>
         [] k = "ArrayLiteral" ->
                <<"[">> \o Join(list(node.Elements), CommaSpace) \o <<"]">>
         [] k = "HashLiteral" ->
                LET pairs == [i \in 1..Len(node.Pairs) |->
                                 S(node.Pairs[i].key) \o <<":", " ">>
                                 \o S(node.Pairs[i].value)]
                IN <<"{">> \o Join(IF rev THEN Reverse(pairs) ELSE pairs, CommaSpace)
                   \o <<"}">>
         [] k = "DotExpression" ->
                S(node.Object) \o <<".">> \o S(node.Property)
         [] k = "ClassLiteral" ->
                <<"c", "l", "a", "s", "e", " ">> \o S(node.Name)
                \o (IF node.Parent # Nil
                    THEN <<" ", "h", "e", "r", "e", "d", "a", " ">> \o S(node.Parent)
                    ELSE <<>>)
                \o (IF Len(node.Interfaces) > 0
                    THEN <<" ", "i", "m", "p", "l", "e", "m", "e", "n", "t", "a", " ">>
                         \o Join(list(node.Interfaces), CommaSpace)
                    ELSE <<>>)
                \o <<" ", "{", "\n">>
                \o Flatten([i \in 1..Len(node.Properties) |->
                               <<" ", " ">> \o S(node.Properties[i]) \o <<"\n">>])
                \o Flatten([i \in 1..Len(node.Methods) |->
                               <<" ", " ">> \o S(node.Methods[i]) \o <<"\n">>])
                \o <<"}">>
         [] k = "NewExpression" ->
                <<"n", "u", "e", "v", "o", " ">> \o S(node.Class) \o <<"(">>
                \o Join(list(node.Arguments), CommaSpace) \o <<")">>
         [] OTHER -> <<PANIC>>

RECURSIVE SameShape(_, _)
\* two ASTs have the same structure: the same node types with the same
\* operators, names and literal values, tokens (and their positions) aside; the
\* pairs of a hash literal are compared as the unordered map they are kept in
SameShape(a, b) ==
    LET k == a.kind
        same(xs, ys) ==
            /\ Len(xs) = Len(ys)
            /\ \A i \in 1..Len(xs) : SameShape(xs[i], ys[i])
    IN IF a.kind # b.kind THEN FALSE
       ELSE CASE k \in {"Program", "BlockStatement"} ->
                     same(a.Statements, b.Statements)
              [] k = "LetStatement" ->
                     SameShape(a.Name, b.Name) /\ SameShape(a.Value, b.Value)
              [] k = "ReturnStatement" -> SameShape(a.ReturnValue, b.ReturnValue)
              [] k = "ExpressionStatement" -> SameShape(a.Expression, b.Expression)
              [] k \in {"Identifier", "IntegerLiteral", "FloatLiteral",
                        "StringLiteral", "BooleanLiteral"} -> a.Value = b.Value
              [] k = "PrefixExpression" ->
                     a.Operator = b.Operator /\ SameShape(a.Right, b.Right)
              [] k = "InfixExpression" ->
                     /\ a.Operator = b.Operator
                     /\ SameShape(a.Left, b.Left)
                     /\ SameShape(a.Right, b.Right)
              [] k = "IfExpression" ->
                     /\ SameShape(a.Condition, b.Condition)
                     /\ SameShape(a.Consequence, b.Consequence)
                     /\ SameShape(a.Alternative, b.Alternative)
              [] k = "WhileExpression" ->
                     SameShape(a.Condition, b.Condition) /\ SameShape(a.Body, b.Body)
              [] k = "ForExpression" ->
                     /\ SameShape(a.Init, b.Init)
                     /\ SameShape(a.Condition, b.Condition)
                     /\ SameShape(a.Update, b.Update)
                     /\ SameShape(a.Body, b.Body)
              [] k = "FunctionLiteral" ->
                     /\ a.Name = b.Name
                     /\ same(a.Parameters, b.Parameters)
                     /\ SameShape(a.Body, b.Body)
              [] k = "CallExpression" ->
                     SameShape(a.Function, b.Function) /\ same(a.Arguments, b.Arguments)
              [] k = "IndexExpression" ->
                     SameShape(a.Left, b.Left) /\ SameShape(a.Index, b.Index)
              [] k = "ArrayLiteral" -> same(a.Elements, b.Elements)
              [] k = "HashLiteral" ->
                     /\ Len(a.Pairs) = Len(b.Pairs)
                     /\ \E f \in Permutations(1..Len(a.Pairs)) :
                            \A i \in 1..Len(a.Pairs) :
                                /\ SameShape(a.Pairs[i].key, b.Pairs[f[i]].key)
                                /\ SameShape(a.Pairs[i].value, b.Pairs[f[i]].value)
              [] k = "DotExpression" ->
                     SameShape(a.Object, b.Object) /\ SameShape(a.Property, b.Property)
              [] k = "ClassLiteral" ->
                     /\ SameShape(a.Name, b.Name)
                     /\ SameShape(a.Parent, b.Parent)
                     /\ same(a.Interfaces, b.Interfaces)
                     /\ same(a.Properties, b.Properties)
                     /\ same(a.Methods, b.Methods)
              [] k = "NewExpression" ->
                     SameShape(a.Class, b.Class) /\ same(a.Arguments, b.Arguments)
              [] OTHER -> TRUE

-----------------------------------------------------------------------------
(* Objects (object.go).  Every value is a record whose first field is Type; *)
(* a value reached through a Go pointer that can be compared with == keeps  *)
(* what identifies the pointer: the singleton's name (Ptr), an allocation   *)
(* id (Id) or an index into the heap of instances (Ref).                    *)

INTEGER_OBJ == "ENTERO"
FLOAT_OBJ == "DECIMAL"
BOOLEAN_OBJ == "BOOLEANO"
NULL_OBJ == "NULO"
RETURN_VALUE_OBJ == "RETORNO"
ERROR_OBJ == "ERROR"
FUNCTION_OBJ == "FUNCION"
STRING_OBJ == "TEXTO"
BUILTIN_OBJ == "INCORPORADO"
ARRAY_OBJ == "LISTA"
HASH_OBJ == "MAPA"
CLASS_OBJ == "CLASE"
INSTANCE_OBJ == "INSTANCIA"

Integer(v) == [Type |-> INTEGER_OBJ, Value |-> v]

\* a float64, kept in fixed point: Value counts 1/FloatScale
Float(v) == [Type |-> FLOAT_OBJ, Value |-> v]

Boolean(v, ptr) == [Type |-> BOOLEAN_OBJ, Value |-> v, Ptr |-> ptr]

Null(ptr) == [Type |-> NULL_OBJ, Ptr |-> ptr]

ReturnValue(v, id) == [Type |-> RETURN_VALUE_OBJ, Value |-> v, Id |-> id]

Error(message) == [Type |-> ERROR_OBJ, Message |-> message]

Function(params, body, env, name, id) ==
    [Type |-> FUNCTION_OBJ, Parameters |-> params, Body |-> body, Env |-> env,
     Name |-> name, Id |-> id]

StringObj(v) == [Type |-> STRING_OBJ, Value |-> v]

\* a Builtin is known by the package that defines it and its name there
Builtin(pkg, name) == [Type |-> BUILTIN_OBJ, Pkg |-> pkg, Fn |-> name]

Array(elements, id) == [Type |-> ARRAY_OBJ, Elements |-> elements, Id |-> id]

\* Pairs: the map as a sequence of [HashKey, Key, Value] with distinct HashKeys
Hash(pairs, id) == [Type |-> HASH_OBJ, Pairs |-> pairs, Id |-> id]

Class(name, properties, methods, id) ==
    [Type |-> CLASS_OBJ, Name |-> name, Properties |-> properties,
     Methods |-> methods, Id |-> id]

Instance(ref) == [Type |-> INSTANCE_OBJ, Ref |-> ref]

\* the nil interface value, and the outcome of dereferencing it
GoNil == [Type |-> "nil"]
GoPanic == [Type |-> "panic"]

\* the singletons of the evaluator package and of the stdlib package
TRUE_OBJ == Boolean(TRUE, "evaluator.TRUE")
FALSE_OBJ == Boolean(FALSE, "evaluator.FALSE")
NULL == Null("evaluator.NULL")
stdlib_TRUE == Boolean(TRUE, "stdlib.TRUE")
stdlib_FALSE == Boolean(FALSE, "stdlib.FALSE")

\* &object.Null{} evaluated anew
NewNull == Null("new")

\* a == b on two interface values holding pointers.  Null is a zero-size
\* struct: whether pointers to distinct zero-size variables are equal is left
\* open by the language, the world's zeroSizeEqual holds the build's choice.
SamePointer(a, b, w) ==
    IF a.Type # b.Type THEN FALSE
    ELSE CASE a.Type = "nil" -> TRUE
           [] a.Type = BOOLEAN_OBJ -> a.Ptr = b.Ptr
           [] a.Type = NULL_OBJ ->
                  IF a.Ptr = b.Ptr /\ a.Ptr # "new" THEN TRUE ELSE w.zeroSizeEqual
           [] a.Type = BUILTIN_OBJ -> a.Pkg = b.Pkg /\ a.Fn = b.Fn
           [] a.Type = INSTANCE_OBJ -> a.Ref = b.Ref
           [] a.Type \in {RETURN_VALUE_OBJ, FUNCTION_OBJ, ARRAY_OBJ, HASH_OBJ,
                          CLASS_OBJ} -> a.Id = b.Id
           [] OTHER -> FALSE

Hashable(v) == v.Type \in {BOOLEAN_OBJ, INTEGER_OBJ, STRING_OBJ}

\* HashKey(): the object's type with its 64-bit key, written as one string (a
\* text stands for its own FNV hash)
HashKey(v) ==
    v.Type \o ":" \o
    (CASE v.Type = BOOLEAN_OBJ -> IF v.Value THEN "1" ELSE "0"
       [] v.Type = INTEGER_OBJ -> ToString(v.Value)
       [] OTHER -> Concat(v.Value))

-----------------------------------------------------------------------------
(* The world an evaluation runs in: the heap of environments and instances, *)
(* standard output, and how the run has ended if it has.                    *)
(*   envs          Environment structs; a pointer is an index, 0 is nil     *)
(*   insts         Instance structs                                         *)
(*   out           the lines written to standard output                     *)
(*   nextId        the next allocation id                                   *)
(*   halt, code    "" while running; "panic" or "exit" with the exit code   *)
(*   hashRev       the order in which this build iterates a two-entry map   *)
(*   zeroSizeEqual whether distinct zero-size variables share an address    *)
(*   raised        history: some Eval call has returned an Error            *)
(*   ranAfter      history: an Eval call began after one returned an Error  *)

NewWorld(hashRev, zeroSizeEqual) ==
    [envs |-> <<>>, insts |-> <<>>, out |-> <<>>, nextId |-> 1, halt |-> "",
     code |-> 0, hashRev |-> hashRev, zeroSizeEqual |-> zeroSizeEqual,
     raised |-> FALSE, ranAfter |-> FALSE]

\* an evaluation's outcome: the object and the world it leaves
R(val, w) == [val |-> val, w |-> w]

\* a Go run-time panic: the process ends with status 2
Panic(w) == R(GoNil, [w EXCEPT !.halt = "panic", !.code = 2])

\* os.Exit(code)
Exit(w, code) == R(GoNil, [w EXCEPT !.halt = "exit", !.code = code])

Halted(r) == r.w.halt # ""

\* the outcome of a step that touches no heap: v, or a panic if v is GoPanic
Pure(v, w) == IF v.Type = "panic" THEN Panic(w) ELSE R(v, w)

NewEnvironment(w) ==
    [env |-> Len(w.envs) + 1,
     w |-> [w EXCEPT !.envs = Append(@, [store |-> <<>>, outer |-> 0])]]

NewEnclosedEnvironment(outer, w) ==
    [env |-> Len(w.envs) + 1,
     w |-> [w EXCEPT !.envs = Append(@, [store |-> <<>>, outer |-> outer])]]

\* an empty map, and m[name] = val
EmptyMap == [n \in {} |-> GoNil]
MapSet(m, name, val) ==
    [n \in DOMAIN m \cup {name} |-> IF n = name THEN val ELSE m[n]]

RECURSIVE Get(_, _, _)
\* e.Get(name): [obj, ok]
Get(w, e, name) ==
    LET store == w.envs[e].store
        outer == w.envs[e].outer
    IN IF name \in DOMAIN store THEN [obj |-> store[name], ok |-> TRUE]
       ELSE IF outer # 0 THEN Get(w, outer, name)
       ELSE [obj |-> GoNil, ok |-> FALSE]

RECURSIVE Set_Rebind(_, _, _, _)
\* a Set that writes to the nearest scope that binds the name already
Set_Rebind(w, e, name, val) ==
    IF name \notin DOMAIN w.envs[e].store /\ w.envs[e].outer # 0
       /\ Get(w, w.envs[e].outer, name).ok
    THEN Set_Rebind(w, w.envs[e].outer, name, val)
    ELSE [w EXCEPT !.envs[e].store = MapSet(@, name, val)]

\* e.Set(name, val)
Set(w, e, name, val) == [w EXCEPT !.envs[e].store = MapSet(@, name, val)]

-----------------------------------------------------------------------------
(* Inspect(): the text an object is shown as (a string)                     *)

\* fmt's %g of a fixed-point float
FormatFloat(v) ==
    LET a == IF v < 0 THEN -v ELSE v
        whole == ToString(a \div FloatScale)
        frac == a % FloatScale
    IN (IF v < 0 THEN "-" ELSE "") \o whole
       \o (IF frac = 0 THEN "" ELSE "." \o ToString(frac))

RECURSIVE JoinStrings(_, _)
JoinStrings(strs, sep) ==
    IF strs = <<>> THEN ""
    ELSE IF Len(strs) = 1 THEN strs[1]
    ELSE strs[1] \o sep \o JoinStrings(Tail(strs), sep)

RECURSIVE Inspect(_, _)
\* obj.Inspect(); PANIC if a nil object is reached
Inspect(obj, w) ==
    LET t == obj.Type
        all(objs) == [i \in 1..Len(objs) |-> Inspect(objs[i], w)]
        broken(strs) == \E i \in 1..Len(strs) : strs[i] = PANIC
    IN CASE t = INTEGER_OBJ -> ToString(obj.Value)
         [] t = FLOAT_OBJ -> FormatFloat(obj.Value)
         [] t = BOOLEAN_OBJ -> IF obj.Value THEN "verdad" ELSE "falso"
         [] t = NULL_OBJ -> "nulo"
         [] t = RETURN_VALUE_OBJ -> Inspect(obj.Value, w)
         [] t = ERROR_OBJ -> "ERROR: " \o obj.Message
         [] t = FUNCTION_OBJ ->
                "fun" \o (IF obj.Name # <<>> THEN " " \o Concat(obj.Name) ELSE "")
                \o "("
                \o JoinStrings([i \in 1..Len(obj.Parameters) |->
                                   Concat(String(obj.Parameters[i], w.hashRev))],
                               ", ")
                \o ") {\n" \o Concat(String(obj.Body, w.hashRev)) \o "\n}"
         [] t = STRING_OBJ -> Concat(obj.Value)
         [] t = BUILTIN_OBJ -> "funcion incorporada"
         [] t = ARRAY_OBJ ->
                LET elements == all(obj.Elements)
                IN IF broken(elements) THEN PANIC
                   ELSE "[" \o JoinStrings(elements, ", ") \o "]"
         [] t = HASH_OBJ ->
                LET keys == all([i \in 1..Len(obj.Pairs) |-> obj.Pairs[i].Key])
                    values == all([i \in 1..Len(obj.Pairs) |-> obj.Pairs[i].Value])
                    pairs == [i \in 1..Len(obj.Pairs) |->
                                 keys[i] \o ": " \o values[i]]
                IN IF broken(keys) \/ broken(values) THEN PANIC
                   ELSE "{" \o JoinStrings(IF w.hashRev THEN Reverse(pairs)
                                           ELSE pairs, ", ") \o "}"
         [] t = CLASS_OBJ -> "clase " \o Concat(obj.Name) \o " { ... }"
         [] t = INSTANCE_OBJ ->
                "instancia de " \o Concat(w.insts[obj.Ref].Class.Name)
         [] OTHER -> PANIC

-----------------------------------------------------------------------------
(* Evaluator: operators on objects.  Accents of the messages are dropped.   *)

\* a test that takes no object for an Error
isError_Never(obj) == FALSE

isError(obj) == obj.Type = ERROR_OBJ

nativeBoolToBooleanObject(input) == IF input THEN TRUE_OBJ ELSE FALSE_OBJ

\* isTruthy(obj) for a non-nil obj
isTruthy(obj, w) ==
    IF SamePointer(obj, NULL, w) THEN FALSE
    ELSE IF SamePointer(obj, TRUE_OBJ, w) THEN TRUE
    ELSE IF SamePointer(obj, FALSE_OBJ, w) THEN FALSE
    ELSE CASE obj.Type = INTEGER_OBJ -> obj.Value # 0
           [] obj.Type = FLOAT_OBJ -> obj.Value # 0
           [] obj.Type = STRING_OBJ -> obj.Value # <<>>
           [] OTHER -> TRUE

evalBangOperatorExpression(right, w) ==
    IF SamePointer(right, TRUE_OBJ, w) THEN FALSE_OBJ
    ELSE IF SamePointer(right, FALSE_OBJ, w) THEN TRUE_OBJ
    ELSE IF SamePointer(right, NULL, w) THEN TRUE_OBJ
    ELSE FALSE_OBJ

\* an integer of unbounded width
Wrap_None(n) == n

\* an int64 result, reduced to the machine word
Wrap(n) == ((n + 2^(IntBits - 1)) % 2^IntBits) - 2^(IntBits - 1)

Abs(n) == IF n < 0 THEN -n ELSE n

\* Go's / and % on integers: truncated toward zero, b # 0
Quo(a, b) ==
    LET q == Abs(a) \div Abs(b) IN IF (a < 0) # (b < 0) THEN -q ELSE q

Rem(a, b) == a - b * Quo(a, b)

evalMinusPrefixOperatorExpression(right) ==
    CASE right.Type = "nil" -> GoPanic
      [] right.Type = INTEGER_OBJ -> Integer(Wrap(-right.Value))
      [] right.Type = FLOAT_OBJ -> Float(-right.Value)
      [] OTHER -> Error("operador de prefijo desconocido: -" \o right.Type)

evalPrefixExpression(operator, right, w) ==
    CASE operator = "!" -> evalBangOperatorExpression(right, w)
      [] operator = "-" -> evalMinusPrefixOperatorExpression(right)
      [] OTHER ->
             IF right.Type = "nil" THEN GoPanic
             ELSE Error("operador de prefijo desconocido: " \o operator
                        \o right.Type)

unknownOperator(operator, left, right) ==
    Error("operador desconocido: " \o left.Type \o " " \o operator \o " "
          \o right.Type)

RECURSIVE IntPow(_, _, _)
\* the loop of "^": result *= leftVal, rightVal times
IntPow(result, leftVal, n) ==
    IF n <= 0 THEN result ELSE IntPow(Wrap(result * leftVal), leftVal, n - 1)

evalIntegerInfixExpression(operator, left, right) ==
    LET leftVal == left.Value
        rightVal == right.Value
    IN CASE operator = "+" -> Integer(Wrap(leftVal + rightVal))
         [] operator = "-" -> Integer(Wrap(leftVal - rightVal))
         [] operator = "*" -> Integer(Wrap(leftVal * rightVal))
         [] operator = "/" ->
                IF rightVal = 0 THEN Error("division por cero")
                ELSE Integer(Wrap(Quo(leftVal, rightVal)))
         [] operator = "%" ->
                IF rightVal = 0 THEN Error("modulo por cero")
                ELSE Integer(Wrap(Rem(leftVal, rightVal)))
         [] operator = "^" -> Integer(IntPow(1, leftVal, rightVal))
         [] operator = "<" -> nativeBoolToBooleanObject(leftVal < rightVal)
         [] operator = ">" -> nativeBoolToBooleanObject(leftVal > rightVal)
         [] operator = "==" -> nativeBoolToBooleanObject(leftVal = rightVal)
         [] operator = "!=" -> nativeBoolToBooleanObject(leftVal # rightVal)
         [] OTHER -> unknownOperator(operator, left, right)

RECURSIVE FloatPow(_, _, _)
\* the loop of "^" on floats: i counts 0.0, 1.0, .. while i < rightVal
FloatPow(result, leftVal, n) ==
    IF n <= 0 THEN result
    ELSE FloatPow(Quo(result * leftVal, FloatScale), leftVal, n - FloatScale)

\* float64 arithmetic in fixed point: products and quotients are cut to
\* 1/FloatScale
evalFloatInfixExpression(operator, left, right) ==
    LET leftVal == left.Value
        rightVal == right.Value
    IN CASE operator = "+" -> Float(leftVal + rightVal)
         [] operator = "-" -> Float(leftVal - rightVal)
         [] operator = "*" -> Float(Quo(leftVal * rightVal, FloatScale))
         [] operator = "/" ->
                IF rightVal = 0 THEN Error("division por cero")
                ELSE Float(Quo(leftVal * FloatScale, rightVal))
         [] operator = "%" ->
                IF rightVal = 0 THEN Error("modulo por cero")
                ELSE IF Quo(rightVal, FloatScale) = 0 THEN GoPanic
                ELSE Float(FloatScale * Rem(Quo(leftVal, FloatScale),
                                            Quo(rightVal, FloatScale)))
         [] operator = "^" -> Float(FloatPow(FloatScale, leftVal, rightVal))
         [] operator = "<" -> nativeBoolToBooleanObject(leftVal < rightVal)
         [] operator = ">" -> nativeBoolToBooleanObject(leftVal > rightVal)
         [] operator = "==" -> nativeBoolToBooleanObject(leftVal = rightVal)
         [] operator = "!=" -> nativeBoolToBooleanObject(leftVal # rightVal)
         [] OTHER -> unknownOperator(operator, left, right)

evalStringInfixExpression(operator, left, right) ==
    LET leftVal == left.Value
        rightVal == right.Value
    IN CASE operator = "+" -> StringObj(leftVal \o rightVal)
         [] operator = "==" -> nativeBoolToBooleanObject(leftVal = rightVal)
         [] operator = "!=" -> nativeBoolToBooleanObject(leftVal # rightVal)
         [] OTHER -> unknownOperator(operator, left, right)

evalLogicalAndOperator(left, right, w) ==
    IF ~isTruthy(left, w) THEN left ELSE right

evalLogicalOrOperator(left, right, w) ==
    IF isTruthy(left, w) THEN left ELSE right

evalInfixExpression(operator, left, right, w) ==
    LET lt == left.Type
        rt == right.Type
    IN IF lt = "nil" THEN GoPanic
       ELSE IF lt \in {INTEGER_OBJ, FLOAT_OBJ, STRING_OBJ} /\ rt = "nil"
       THEN GoPanic
       ELSE IF lt = INTEGER_OBJ /\ rt = INTEGER_OBJ
       THEN evalIntegerInfixExpression(operator, left, right)
       ELSE IF lt = FLOAT_OBJ /\ rt = FLOAT_OBJ
       THEN evalFloatInfixExpression(operator, left, right)
       ELSE IF lt = INTEGER_OBJ /\ rt = FLOAT_OBJ
       THEN evalFloatInfixExpression(operator, Float(left.Value * FloatScale),
                                     right)
       ELSE IF lt = FLOAT_OBJ /\ rt = INTEGER_OBJ
       THEN evalFloatInfixExpression(operator, left,
                                     Float(right.Value * FloatScale))
       ELSE IF lt = STRING_OBJ /\ rt = STRING_OBJ
       THEN evalStringInfixExpression(operator, left, right)
       ELSE IF operator = "=="
       THEN nativeBoolToBooleanObject(SamePointer(left, right, w))
       ELSE IF operator = "!="
       THEN nativeBoolToBooleanObject(~SamePointer(left, right, w))
       ELSE IF operator = "y" THEN evalLogicalAndOperator(left, right, w)
       ELSE IF operator = "o" THEN evalLogicalOrOperator(left, right, w)
       ELSE IF rt = "nil" THEN GoPanic
       ELSE IF lt # rt
       THEN Error("tipo de operando no valido: " \o lt \o " " \o operator
                  \o " " \o rt)
       ELSE unknownOperator(operator, left, right)

unwrapReturnValue(obj) ==
    IF obj.Type = RETURN_VALUE_OBJ THEN obj.Value ELSE obj

evalArrayIndexExpression(array, index) ==
    LET idx == index.Value
        max == Len(array.Elements) - 1
    IN IF idx < 0 \/ idx > max THEN NULL ELSE array.Elements[idx + 1]

evalHashIndexExpression(hash, index) ==
    IF ~Hashable(index)
    THEN IF index.Type = "nil" THEN GoPanic
         ELSE Error("clave no utilizable como hash: " \o index.Type)
    ELSE LET key == HashKey(index)
             hit == {i \in 1..Len(hash.Pairs) : hash.Pairs[i].HashKey = key}
         IN IF hit = {} THEN NULL ELSE hash.Pairs[CHOOSE i \in hit : TRUE].Value

evalIndexExpression(left, index) ==
    CASE left.Type = "nil" -> GoPanic
      [] left.Type = ARRAY_OBJ /\ index.Type = "nil" -> GoPanic
      [] left.Type = ARRAY_OBJ /\ index.Type = INTEGER_OBJ ->
             evalArrayIndexExpression(left, index)
      [] left.Type = HASH_OBJ -> evalHashIndexExpression(left, index)
      [] OTHER -> Error("operador de indice no soportado: " \o left.Type)

-----------------------------------------------------------------------------
(* Evaluator: the built-in functions ("builtins" of the evaluator package  *)
(* and, of the stdlib package, mostrar, longitud, contiene and salir)      *)

StdlibNames ==
    {<<"m", "o", "s", "t", "r", "a", "r">>,
     <<"l", "o", "n", "g", "i", "t", "u", "d">>,
     <<"c", "o", "n", "t", "i", "e", "n", "e">>,
     <<"s", "a", "l", "i", "r">>}

\* the keys of the evaluator's builtins map
builtins ==
    {<<"l", "o", "n", "g", "i", "t", "u", "d">>,
     <<"m", "o", "s", "t", "r", "a", "r">>}

\* stdlib.LoadStdlib(env)
LoadStdlib(w, env) ==
    [w EXCEPT !.envs[env].store =
        [n \in DOMAIN @ \cup StdlibNames |->
            IF n \in StdlibNames THEN Builtin("stdlib", Concat(n)) ELSE @[n]]]

\* strings.Contains
Contains(s, substr) ==
    \E i \in 1..(Len(s) - Len(substr) + 1) :
        SubSeq(s, i, i + Len(substr) - 1) = substr

wrongArgs(want, got) ==
    Error("numero incorrecto de argumentos: se esperaba " \o want
          \o ", se obtuvo " \o ToString(got))

\* mostrar of either package: every argument's Inspect() on a line of its own
mostrar(args, w, null) ==
    LET lines == [i \in 1..Len(args) |-> Inspect(args[i], w)]
        bad == {i \in 1..Len(args) : lines[i] = PANIC}
    IN IF bad = {} THEN R(null, [w EXCEPT !.out = @ \o lines])
       ELSE LET first == CHOOSE i \in bad : \A j \in bad : i <= j
            IN Panic([w EXCEPT !.out = @ \o SubSeq(lines, 1, first - 1)])

evaluator_longitud(args) ==
    IF Len(args) # 1
    THEN Error("numero incorrecto de argumentos para 'longitud': se esperaba 1, se obtuvo "
               \o ToString(Len(args)))
    ELSE CASE args[1].Type = STRING_OBJ -> Integer(Len(args[1].Value))
           [] args[1].Type = ARRAY_OBJ -> Integer(Len(args[1].Elements))
           [] args[1].Type = "nil" -> GoPanic
           [] OTHER -> Error("argumento para 'longitud' no soportado, se obtuvo "
                             \o args[1].Type)

stdlib_longitud(args) ==
    IF Len(args) # 1 THEN wrongArgs("1", Len(args))
    ELSE CASE args[1].Type = STRING_OBJ -> Integer(Len(args[1].Value))
           [] args[1].Type = ARRAY_OBJ -> Integer(Len(args[1].Elements))
           [] args[1].Type = HASH_OBJ -> Integer(Len(args[1].Pairs))
           [] args[1].Type = "nil" -> GoPanic
           [] OTHER -> Error("argumento no valido para 'longitud': "
                             \o args[1].Type)

contiene(args) ==
    IF Len(args) # 2 THEN wrongArgs("2", Len(args))
    ELSE IF args[1].Type = STRING_OBJ /\ args[2].Type = STRING_OBJ
    THEN IF Contains(args[1].Value, args[2].Value) THEN stdlib_TRUE
         ELSE stdlib_FALSE
    ELSE IF args[1].Type = "nil" \/ args[2].Type = "nil" THEN GoPanic
    ELSE Error("argumentos no validos para 'contiene': " \o args[1].Type
               \o ", " \o args[2].Type)

salir(args, w) ==
    IF Len(args) = 1
    THEN CASE args[1].Type = INTEGER_OBJ -> Exit(w, args[1].Value)
           [] args[1].Type = "nil" -> Panic(w)
           [] OTHER -> R(Error("argumento no valido para 'salir': "
                               \o args[1].Type), w)
    ELSE IF Len(args) > 1
    THEN R(Error("numero incorrecto de argumentos: se esperaba 0 o 1, se obtuvo "
                 \o ToString(Len(args))), w)
    ELSE Exit(w, 0)

\* fn.Fn(args...)
callBuiltin(fn, args, w) ==
    IF fn.Pkg = "evaluator"
    THEN IF fn.Fn = "mostrar" THEN mostrar(args, w, NULL)
         ELSE Pure(evaluator_longitud(args), w)
    ELSE CASE fn.Fn = "mostrar" -> mostrar(args, w, NewNull)
           [] fn.Fn = "longitud" -> Pure(stdlib_longitud(args), w)
           [] fn.Fn = "contiene" -> Pure(contiene(args), w)
           [] fn.Fn = "salir" -> salir(args, w)

-----------------------------------------------------------------------------
(* Evaluator: Eval and the functions it calls, each from an AST node, an    *)
(* environment and a world to R(object, world)                              *)

RECURSIVE Eval(_, _, _), evalNode(_, _, _), evalProgramLoop(_, _, _, _, _),
          evalBlockLoop(_, _, _, _, _), evalIfExpression(_, _, _),
          evalWhileLoop(_, _, _, _), evalForLoop(_, _, _, _),
          evalForExpression(_, _, _), evalExpressionsLoop(_, _, _, _, _),
          applyFunction(_, _, _), evalHashLoop(_, _, _, _, _),
          evalClassProperties(_, _, _, _, _), evalClassLiteral(_, _, _),
          evalNewExpression(_, _, _)

\* one round of evalProgram's loop: the statement is evaluated; done tells the
\* loop returns in this round, with val
evalProgramStep_result(r) ==
    IF Halted(r) THEN [val |-> GoNil, w |-> r.w, done |-> TRUE]
    ELSE IF r.val.Type = RETURN_VALUE_OBJ
    THEN [val |-> r.val.Value, w |-> r.w, done |-> TRUE]
    ELSE IF r.val.Type = ERROR_OBJ
    THEN [val |-> r.val, w |-> r.w, done |-> TRUE]
    ELSE [val |-> r.val, w |-> r.w, done |-> FALSE]

evalProgramStep(statement, env, w) ==
    evalProgramStep_result(Eval(statement, env, w))

evalProgramLoop_step(statements, i, env, s) ==
    IF s.done THEN R(s.val, s.w)
    ELSE evalProgramLoop(statements, i + 1, env, s.w, s.val)

evalProgramLoop(statements, i, env, w, result) ==
    IF i > Len(statements) THEN R(result, w)
    ELSE evalProgramLoop_step(statements, i, env,
                              evalProgramStep(statements[i], env, w))

evalProgram(program, env, w) ==
    evalProgramLoop(program.Statements, 1, env, w, GoNil)

RECURSIVE evalBlockLoop_Through(_, _, _, _, _)
\* a block that goes on after a statement has returned
evalBlockLoop_Through(statements, i, env, w, result) ==
    IF i > Len(statements) THEN R(result, w)
    ELSE LET r == Eval(statements[i], env, w)
         IN IF Halted(r) THEN r
            ELSE IF r.val.Type = ERROR_OBJ THEN r
            ELSE evalBlockLoop_Through(statements, i + 1, env, r.w, r.val)

evalBlockLoop(statements, i, env, w, result) ==
    IF i > Len(statements) THEN R(result, w)
    ELSE LET r == Eval(statements[i], env, w)
         IN IF Halted(r) THEN r
            ELSE IF r.val.Type \in {RETURN_VALUE_OBJ, ERROR_OBJ} THEN r
            ELSE evalBlockLoop(statements, i + 1, env, r.w, r.val)

evalBlockStatement(block, env, w) ==
    evalBlockLoop(block.Statements, 1, env, w, GoNil)

evalIfExpression(ie, env, w) ==
    LET condition == Eval(ie.Condition, env, w)
    IN IF Halted(condition) \/ isError(condition.val) THEN condition
       ELSE IF condition.val.Type = "nil" THEN Panic(condition.w)
       ELSE IF isTruthy(condition.val, condition.w)
       THEN Eval(ie.Consequence, env, condition.w)
       ELSE IF ie.Alternative.kind # "nil"
       THEN Eval(ie.Alternative, env, condition.w)
       ELSE R(NULL, condition.w)

\* the loop of evalWhileExpression, from its head
evalWhileLoop(we, env, w, result) ==
    LET condition == Eval(we.Condition, env, w)
    IN IF Halted(condition) \/ isError(condition.val) THEN condition
       ELSE IF condition.val.Type = "nil" THEN Panic(condition.w)
       ELSE IF ~isTruthy(condition.val, condition.w) THEN R(result, condition.w)
       ELSE LET body == Eval(we.Body, env, condition.w)
            IN IF Halted(body) \/ isError(body.val) THEN body
               ELSE IF body.val.Type = RETURN_VALUE_OBJ THEN body
               ELSE evalWhileLoop(we, env, body.w, body.val)

evalWhileExpression(we, env, w) == evalWhileLoop(we, env, w, NULL)

\* the loop of evalForExpression, from its head
evalForLoop(fe, loopEnv, w, result) ==
    LET condition == IF fe.Condition.kind # "nil"
                     THEN Eval(fe.Condition, loopEnv, w)
                     ELSE R(TRUE_OBJ, w)
        tested == fe.Condition.kind # "nil"
    IN IF tested /\ (Halted(condition) \/ isError(condition.val)) THEN condition
       ELSE IF tested /\ condition.val.Type = "nil" THEN Panic(condition.w)
       ELSE IF tested /\ ~isTruthy(condition.val, condition.w)
       THEN R(result, condition.w)
       ELSE LET body == Eval(fe.Body, loopEnv, condition.w)
            IN IF Halted(body) \/ isError(body.val) THEN body
               ELSE IF body.val.Type = RETURN_VALUE_OBJ THEN body
               ELSE IF fe.Update.kind # "nil"
               THEN LET updateResult == Eval(fe.Update, loopEnv, body.w)
                    IN IF Halted(updateResult) \/ isError(updateResult.val)
                       THEN updateResult
                       ELSE evalForLoop(fe, loopEnv, updateResult.w, body.val)
               ELSE evalForLoop(fe, loopEnv, body.w, body.val)

evalForExpression(fe, env, w) ==
    LET e == NewEnclosedEnvironment(env, w)
        loopEnv == e.env
    IN IF fe.Init.kind # "nil"
       THEN LET initResult == Eval(fe.Init, loopEnv, e.w)
            IN IF Halted(initResult) \/ isError(initResult.val) THEN initResult
               ELSE evalForLoop(fe, loopEnv, initResult.w, NULL)
       ELSE evalForLoop(fe, loopEnv, e.w, NULL)

evalIdentifier(node, env, w) ==
    LET found == Get(w, env, node.Value)
    IN IF found.ok THEN found.obj
       ELSE IF node.Value \in builtins
       THEN Builtin("evaluator", Concat(node.Value))
       ELSE Error("identificador no encontrado: " \o Concat(node.Value))

\* evalExpressions: [vals, w]
evalExpressionsLoop(exps, i, env, w, result) ==
    IF i > Len(exps) THEN [vals |-> result, w |-> w]
    ELSE LET evaluated == Eval(exps[i], env, w)
         IN IF Halted(evaluated) THEN [vals |-> <<>>, w |-> evaluated.w]
            ELSE IF isError(evaluated.val)
            THEN [vals |-> <<evaluated.val>>, w |-> evaluated.w]
            ELSE evalExpressionsLoop(exps, i + 1, env, evaluated.w,
                                     Append(result, evaluated.val))

evalExpressions(exps, env, w) == evalExpressionsLoop(exps, 1, env, w, <<>>)

RECURSIVE bindParameters_Unfilled(_, _, _, _, _, _)
\* a binding that leaves the parameters without an argument unbound
bindParameters_Unfilled(parameters, args, i, env, w, missing) ==
    IF i > Len(parameters) \/ i > Len(args) THEN w
    ELSE bindParameters_Unfilled(parameters, args, i + 1, env,
                                 Set(w, env, parameters[i].Value, args[i]),
                                 missing)

RECURSIVE bindParameters(_, _, _, _, _, _)
\* env.Set of the parameters from the i-th on: an argument where there is
\* one, else missing (GoNil for missing: the parameter is left unbound)
bindParameters(parameters, args, i, env, w, missing) ==
    IF i > Len(parameters) THEN w
    ELSE LET name == parameters[i].Value
             w1 == IF i <= Len(args) THEN Set(w, env, name, args[i])
                   ELSE IF missing.Type = "nil" THEN w
                   ELSE Set(w, env, name, missing)
         IN bindParameters(parameters, args, i + 1, env, w1, missing)

\* a call scope that does not enclose the scope the function was created in
extendFunctionEnv_Detached(fn, args, w) ==
    LET e == NewEnvironment(w)
    IN [env |-> e.env,
        w |-> bindParameters(fn.Parameters, args, 1, e.env, e.w, NULL)]

\* extendFunctionEnv: [env, w]
extendFunctionEnv(fn, args, w) ==
    LET e == NewEnclosedEnvironment(fn.Env, w)
    IN [env |-> e.env,
        w |-> bindParameters(fn.Parameters, args, 1, e.env, e.w, NULL)]

applyFunction(fn, args, w) ==
    CASE fn.Type = FUNCTION_OBJ ->
             LET extended == extendFunctionEnv(fn, args, w)
                 evaluated == Eval(fn.Body, extended.env, extended.w)
             IN IF Halted(evaluated) THEN evaluated
                ELSE R(unwrapReturnValue(evaluated.val), evaluated.w)
      [] fn.Type = BUILTIN_OBJ -> callBuiltin(fn, args, w)
      [] fn.Type = "nil" -> Panic(w)
      [] OTHER -> R(Error("no es una funcion: " \o fn.Type), w)

\* pairs[hashed] = pair
HashPut(pairs, pair) ==
    IF \E i \in 1..Len(pairs) : pairs[i].HashKey = pair.HashKey
    THEN [i \in 1..Len(pairs) |->
             IF pairs[i].HashKey = pair.HashKey THEN pair ELSE pairs[i]]
    ELSE Append(pairs, pair)

\* the loop of evalHashLiteral over the pairs still to visit
evalHashLoop(todo, i, env, w, pairs) ==
    IF i > Len(todo) THEN R(Hash(pairs, w.nextId), [w EXCEPT !.nextId = @ + 1])
    ELSE LET key == Eval(todo[i].key, env, w)
         IN IF Halted(key) \/ isError(key.val) THEN key
            ELSE IF key.val.Type = "nil" THEN Panic(key.w)
            ELSE IF ~Hashable(key.val)
            THEN R(Error("clave no utilizable como hash: " \o key.val.Type),
                   key.w)
            ELSE LET value == Eval(todo[i].value, env, key.w)
                 IN IF Halted(value) \/ isError(value.val) THEN value
                    ELSE evalHashLoop(todo, i + 1, env, value.w,
                                      HashPut(pairs,
                                              [HashKey |-> HashKey(key.val),
                                               Key |-> key.val,
                                               Value |-> value.val]))

evalHashLiteral(node, env, w) ==
    evalHashLoop(IF w.hashRev THEN Reverse(node.Pairs) ELSE node.Pairs, 1, env,
                 w, <<>>)

\* a member access that hands out the class's method as it is, bound to no
\* instance
evalDotExpression_Unbound(obj, property, w) ==
    IF obj.Type # INSTANCE_OBJ
    THEN R(Error("acceso a propiedad no soportado para: " \o obj.Type), w)
    ELSE IF property \in DOMAIN w.insts[obj.Ref].Properties
    THEN R(w.insts[obj.Ref].Properties[property], w)
    ELSE IF property \in DOMAIN w.insts[obj.Ref].Class.Methods
    THEN R(w.insts[obj.Ref].Class.Methods[property], w)
    ELSE R(Error("propiedad o metodo no encontrado: " \o Concat(property)), w)

evalDotExpression(obj, property, w) ==
    CASE obj.Type = INSTANCE_OBJ ->
             LET inst == w.insts[obj.Ref]
             IN IF property \in DOMAIN inst.Properties
                THEN R(inst.Properties[property], w)
                ELSE IF property \in DOMAIN inst.Class.Methods
                THEN LET method == inst.Class.Methods[property]
                         e == NewEnclosedEnvironment(inst.Env, w)
                         w1 == Set(e.w, e.env, <<"e", "s", "t", "o">>, obj)
                     IN R(Function(method.Parameters, method.Body, e.env,
                                   method.Name, w1.nextId),
                          [w1 EXCEPT !.nextId = @ + 1])
                ELSE R(Error("propiedad o metodo no encontrado: "
                             \o Concat(property)), w)
      [] obj.Type = STRING_OBJ ->
             IF property = <<"l", "o", "n", "g", "i", "t", "u", "d">>
             THEN R(Integer(Len(obj.Value)), w)
             ELSE R(Error("propiedad no encontrada en string: "
                          \o Concat(property)), w)
      [] obj.Type = ARRAY_OBJ ->
             IF property = <<"l", "o", "n", "g", "i", "t", "u", "d">>
             THEN R(Integer(Len(obj.Elements)), w)
             ELSE R(Error("propiedad no encontrada en array: "
                          \o Concat(property)), w)
      [] obj.Type = "nil" -> Panic(w)
      [] OTHER -> R(Error("acceso a propiedad no soportado para: " \o obj.Type),
                    w)

\* the first loop of evalClassLiteral: [properties, w, stop, val]
evalClassProperties(nodes, i, env, w, properties) ==
    IF i > Len(nodes)
    THEN [properties |-> properties, w |-> w, stop |-> FALSE, val |-> GoNil]
    ELSE IF nodes[i].kind # "LetStatement"
    THEN [properties |-> properties, w |-> Panic(w).w, stop |-> TRUE,
          val |-> GoNil]
    ELSE LET propValue == Eval(nodes[i].Value, env, w)
         IN IF Halted(propValue) \/ isError(propValue.val)
            THEN [properties |-> properties, w |-> propValue.w, stop |-> TRUE,
                  val |-> propValue.val]
            ELSE evalClassProperties(nodes, i + 1, env, propValue.w,
                                     MapSet(properties, nodes[i].Name.Value,
                                            propValue.val))

RECURSIVE evalClassMethods(_, _, _, _, _)
\* the second loop of evalClassLiteral: [methods, w]
evalClassMethods(nodes, i, env, w, methods) ==
    IF i > Len(nodes) THEN [methods |-> methods, w |-> w]
    ELSE LET e == NewEnclosedEnvironment(env, w)
             method == Function(nodes[i].Parameters, nodes[i].Body, e.env,
                                nodes[i].Name, e.w.nextId)
         IN evalClassMethods(nodes, i + 1, env, [e.w EXCEPT !.nextId = @ + 1],
                             MapSet(methods, nodes[i].Name, method))

evalClassLiteral(node, env, w) ==
    LET props == evalClassProperties(node.Properties, 1, env, w, EmptyMap)
    IN IF props.stop THEN R(props.val, props.w)
       ELSE LET meths == evalClassMethods(node.Methods, 1, env, props.w, EmptyMap)
                class == Class(node.Name.Value, props.properties, meths.methods,
                               meths.w.nextId)
            IN R(class, Set([meths.w EXCEPT !.nextId = @ + 1], env,
                            node.Name.Value, class))

evalNewExpression(node, env, w) ==
    LET classObj == Eval(node.Class, env, w)
    IN IF Halted(classObj) \/ isError(classObj.val) THEN classObj
       ELSE IF classObj.val.Type = "nil" THEN Panic(classObj.w)
       ELSE IF classObj.val.Type # CLASS_OBJ
       THEN R(Error("no es una clase: " \o classObj.val.Type), classObj.w)
       ELSE
       LET class == classObj.val
           e == NewEnclosedEnvironment(env, classObj.w)
           instanceEnv == e.env
           ref == Len(e.w.insts) + 1
           instance == Instance(ref)
           w1 == [e.w EXCEPT !.insts =
                     Append(@, [Class |-> class, Properties |-> class.Properties,
                                Env |-> instanceEnv])]
           w2 == Set(w1, instanceEnv, <<"e", "s", "t", "o">>, instance)
       IN IF <<"c", "r", "e", "a", "r">> \in DOMAIN class.Methods
          THEN LET constructor == class.Methods[<<"c", "r", "e", "a", "r">>]
                   args == evalExpressions(node.Arguments, env, w2)
               IN IF args.w.halt # "" THEN R(GoNil, args.w)
                  ELSE IF Len(args.vals) = 1 /\ isError(args.vals[1])
                  THEN R(args.vals[1], args.w)
                  ELSE LET c == NewEnclosedEnvironment(constructor.Env, args.w)
                           constructorEnv == c.env
                           w3 == Set(c.w, constructorEnv, <<"e", "s", "t", "o">>,
                                     instance)
                           w4 == bindParameters(constructor.Parameters,
                                                args.vals, 1, constructorEnv, w3,
                                                GoNil)
                           run == Eval(constructor.Body, constructorEnv, w4)
                       IN IF Halted(run) THEN run ELSE R(instance, run.w)
          ELSE R(instance, w2)

evalNode(node, env, w) ==
    LET k == node.kind
    IN CASE k = "Program" -> evalProgram(node, env, w)
         [] k = "ExpressionStatement" -> Eval(node.Expression, env, w)
         [] k = "BlockStatement" -> evalBlockStatement(node, env, w)
         [] k = "LetStatement" ->
                LET val == Eval(node.Value, env, w)
                IN IF Halted(val) \/ isError(val.val) THEN val
                   ELSE R(val.val, Set(val.w, env, node.Name.Value, val.val))
         [] k = "ReturnStatement" ->
                LET val == Eval(node.ReturnValue, env, w)
                IN IF Halted(val) \/ isError(val.val) THEN val
                   ELSE R(ReturnValue(val.val, val.w.nextId),
                          [val.w EXCEPT !.nextId = @ + 1])
         [] k = "IntegerLiteral" -> R(Integer(node.Value), w)
         [] k = "FloatLiteral" -> R(Float(node.Value), w)
         [] k = "StringLiteral" -> R(StringObj(node.Value), w)
         [] k = "BooleanLiteral" -> R(nativeBoolToBooleanObject(node.Value), w)
         [] k = "NullLiteral" -> R(NULL, w)
         [] k = "PrefixExpression" ->
                LET right == Eval(node.Right, env, w)
                IN IF Halted(right) \/ isError(right.val) THEN right
                   ELSE Pure(evalPrefixExpression(node.Operator, right.val,
                                                  right.w), right.w)
         [] k = "InfixExpression" ->
                LET left == Eval(node.Left, env, w)
                IN IF Halted(left) \/ isError(left.val) THEN left
                   ELSE LET right == Eval(node.Right, env, left.w)
                        IN IF Halted(right) \/ isError(right.val) THEN right
                           ELSE Pure(evalInfixExpression(node.Operator, left.val,
                                                         right.val, right.w),
                                     right.w)
         [] k = "IfExpression" -> evalIfExpression(node, env, w)
         [] k = "WhileExpression" -> evalWhileExpression(node, env, w)
         [] k = "ForExpression" -> evalForExpression(node, env, w)
         [] k = "Identifier" -> R(evalIdentifier(node, env, w), w)
         [] k = "FunctionLiteral" ->
                R(Function(node.Parameters, node.Body, env, node.Name, w.nextId),
                  [w EXCEPT !.nextId = @ + 1])
         [] k = "CallExpression" ->
                LET function == Eval(node.Function, env, w)
                IN IF Halted(function) \/ isError(function.val) THEN function
                   ELSE LET args == evalExpressions(node.Arguments, env,
                                                    function.w)
                        IN IF args.w.halt # "" THEN R(GoNil, args.w)
                           ELSE IF Len(args.vals) = 1 /\ isError(args.vals[1])
                           THEN R(args.vals[1], args.w)
                           ELSE applyFunction(function.val, args.vals, args.w)
         [] k = "ArrayLiteral" ->
                LET elements == evalExpressions(node.Elements, env, w)
                IN IF elements.w.halt # "" THEN R(GoNil, elements.w)
                   ELSE IF Len(elements.vals) = 1 /\ isError(elements.vals[1])
                   THEN R(elements.vals[1], elements.w)
                   ELSE R(Array(elements.vals, elements.w.nextId),
                          [elements.w EXCEPT !.nextId = @ + 1])
         [] k = "IndexExpression" ->
                LET left == Eval(node.Left, env, w)
                IN IF Halted(left) \/ isError(left.val) THEN left
                   ELSE LET index == Eval(node.Index, env, left.w)
                        IN IF Halted(index) \/ isError(index.val) THEN index
                           ELSE Pure(evalIndexExpression(left.val, index.val),
                                     index.w)
         [] k = "HashLiteral" -> evalHashLiteral(node, env, w)
         [] k = "DotExpression" ->
                LET obj == Eval(node.Object, env, w)
                IN IF Halted(obj) \/ isError(obj.val) THEN obj
                   ELSE evalDotExpression(obj.val, node.Property.Value, obj.w)
         [] k = "ClassLiteral" -> evalClassLiteral(node, env, w)
         [] k = "NewExpression" -> evalNewExpression(node, env, w)
         [] k = "nil" -> R(NULL, w)
         [] OTHER -> Panic(w)

\* Eval(node, env).  The world's history fields are kept here: ranAfter when
\* the call begins, raised when it returns.
Eval_returned(r) ==
    IF ~Halted(r) /\ isError(r.val)
    THEN R(r.val, [r.w EXCEPT !.raised = TRUE])
    ELSE r

Eval(node, env, w) ==
    IF w.halt # "" THEN R(GoNil, w)
    ELSE Eval_returned(evalNode(node, env,
                                [w EXCEPT !.ranAfter = @ \/ w.raised]))

-----------------------------------------------------------------------------
(* The source texts the interpreter is run on *)

\* verdad o (1 / 0)
Src_OrDivZero ==
    <<"v", "e", "r", "d", "a", "d", " ", "o", " ", "(", "1", " ", "/", " ",
      "0", ")">>

\* falso y (1 / 0)
Src_AndDivZero ==
    <<"f", "a", "l", "s", "o", " ", "y", " ", "(", "1", " ", "/", " ", "0",
      ")">>

\* verdad o mostrar(7)
Src_OrShows ==
    <<"v", "e", "r", "d", "a", "d", " ", "o", " ", "m", "o", "s", "t", "r",
      "a", "r", "(", "7", ")">>

\* falso y mostrar(7)
Src_AndShows ==
    <<"f", "a", "l", "s", "o", " ", "y", " ", "m", "o", "s", "t", "r", "a",
      "r", "(", "7", ")">>

\* mostrar(verdad o (1 / 0))
Src_ShowOr ==
    <<"m", "o", "s", "t", "r", "a", "r", "(", "v", "e", "r", "d", "a", "d",
      " ", "o", " ", "(", "1", " ", "/", " ", "0", ")", ")">>

\* falso o mostrar(7)
Src_OrRight ==
    <<"f", "a", "l", "s", "o", " ", "o", " ", "m", "o", "s", "t", "r", "a",
      "r", "(", "7", ")">>

\* verdad y mostrar(7)
Src_AndRight ==
    <<"v", "e", "r", "d", "a", "d", " ", "y", " ", "m", "o", "s", "t", "r",
      "a", "r", "(", "7", ")">>

\* clase C { guarda v = 5 fun m() { esto.v } } guarda c = nuevo C c.m()
Src_EstoRead ==
    <<"c", "l", "a", "s", "e", " ", "C", " ", "{", " ", "g", "u", "a", "r",
      "d", "a", " ", "v", " ", "=", " ", "5", " ", "f", "u", "n", " ", "m",
      "(", ")", " ", "{", " ", "e", "s", "t", "o", ".", "v", " ", "}", " ",
      "}", " ", "g", "u", "a", "r", "d", "a", " ", "c", " ", "=", " ", "n",
      "u", "e", "v", "o", " ", "C", " ", "c", ".", "m", "(", ")">>

\* clase C { fun m() { devolver esto } } guarda c = nuevo C c.m()
Src_EstoReturn ==
    <<"c", "l", "a", "s", "e", " ", "C", " ", "{", " ", "f", "u", "n", " ",
      "m", "(", ")", " ", "{", " ", "d", "e", "v", "o", "l", "v", "e", "r",
      " ", "e", "s", "t", "o", " ", "}", " ", "}", " ", "g", "u", "a", "r",
      "d", "a", " ", "c", " ", "=", " ", "n", "u", "e", "v", "o", " ", "C",
      " ", "c", ".", "m", "(", ")">>

\* clase C { guarda v = 5 fun m() { esto.v } guarda c = nuevo C c.m()
Src_EstoOpen ==
    <<"c", "l", "a", "s", "e", " ", "C", " ", "{", " ", "g", "u", "a", "r",
      "d", "a", " ", "v", " ", "=", " ", "5", " ", "f", "u", "n", " ", "m",
      "(", ")", " ", "{", " ", "e", "s", "t", "o", ".", "v", " ", "}", " ",
      "g", "u", "a", "r", "d", "a", " ", "c", " ", "=", " ", "n", "u", "e",
      "v", "o", " ", "C", " ", "c", ".", "m", "(", ")">>

\* clase C { guarda v = 5 fun m() { 3 } guarda c = nuevo C c.m()
Src_MethodOpen ==
    <<"c", "l", "a", "s", "e", " ", "C", " ", "{", " ", "g", "u", "a", "r",
      "d", "a", " ", "v", " ", "=", " ", "5", " ", "f", "u", "n", " ", "m",
      "(", ")", " ", "{", " ", "3", " ", "}", " ", "g", "u", "a", "r", "d",
      "a", " ", "c", " ", "=", " ", "n", "u", "e", "v", "o", " ", "C", " ",
      "c", ".", "m", "(", ")">>

\* guarda x = 1 guarda f = fun() { x } guarda x = 2 f()
Src_Rebound ==
    <<"g", "u", "a", "r", "d", "a", " ", "x", " ", "=", " ", "1", " ", "g",
      "u", "a", "r", "d", "a", " ", "f", " ", "=", " ", "f", "u", "n", "(",
      ")", " ", "{", " ", "x", " ", "}", " ", "g", "u", "a", "r", "d", "a",
      " ", "x", " ", "=", " ", "2", " ", "f", "(", ")">>

\* guarda f = fun() { z } guarda z = 5 f()
Src_BoundLater ==
    <<"g", "u", "a", "r", "d", "a", " ", "f", " ", "=", " ", "f", "u", "n",
      "(", ")", " ", "{", " ", "z", " ", "}", " ", "g", "u", "a", "r", "d",
      "a", " ", "z", " ", "=", " ", "5", " ", "f", "(", ")">>

\* guarda x = 1 guarda f = fun() { x } mostrar(f()) guarda x = 2 mostrar(f())
Src_CalledTwice ==
    <<"g", "u", "a", "r", "d", "a", " ", "x", " ", "=", " ", "1", " ", "g",
      "u", "a", "r", "d", "a", " ", "f", " ", "=", " ", "f", "u", "n", "(",
      ")", " ", "{", " ", "x", " ", "}", " ", "m", "o", "s", "t", "r", "a",
      "r", "(", "f", "(", ")", ")", " ", "g", "u", "a", "r", "d", "a", " ",
      "x", " ", "=", " ", "2", " ", "m", "o", "s", "t", "r", "a", "r", "(",
      "f", "(", ")", ")">>

\* guarda = 1
Src_ParseError ==
    <<"g", "u", "a", "r", "d", "a", " ", "=", " ", "1">>

\* 1 / 0
Src_DivZero ==
    <<"1", " ", "/", " ", "0">>

\* 1 + 2 * 3
Src_Clean ==
    <<"1", " ", "+", " ", "2", " ", "*", " ", "3">>

\* (the empty file)
Src_Empty ==
    <<>>

\* salir(3) mostrar(1)
Src_Salir ==
    <<"s", "a", "l", "i", "r", "(", "3", ")", " ", "m", "o", "s", "t", "r",
      "a", "r", "(", "1", ")">>

\* guarda x = si (verdad) { devolver 1 }
Src_LetReturn ==
    <<"g", "u", "a", "r", "d", "a", " ", "x", " ", "=", " ", "s", "i", " ",
      "(", "v", "e", "r", "d", "a", "d", ")", " ", "{", " ", "d", "e", "v",
      "o", "l", "v", "e", "r", " ", "1", " ", "}">>

\* guarda f = fun() { guarda r = si (verdad) { devolver 1 } r } f()
Src_LetReturnInFunction ==
    <<"g", "u", "a", "r", "d", "a", " ", "f", " ", "=", " ", "f", "u", "n",
      "(", ")", " ", "{", " ", "g", "u", "a", "r", "d", "a", " ", "r", " ",
      "=", " ", "s", "i", " ", "(", "v", "e", "r", "d", "a", "d", ")", " ",
      "{", " ", "d", "e", "v", "o", "l", "v", "e", "r", " ", "1", " ", "}",
      " ", "r", " ", "}", " ", "f", "(", ")">>

\* guarda a = [si (verdad) { devolver 1 }]
Src_ArrayReturn ==
    <<"g", "u", "a", "r", "d", "a", " ", "a", " ", "=", " ", "[", "s", "i",
      " ", "(", "v", "e", "r", "d", "a", "d", ")", " ", "{", " ", "d", "e",
      "v", "o", "l", "v", "e", "r", " ", "1", " ", "}", "]">>

\* guarda x = 1 / 0
Src_LetError ==
    <<"g", "u", "a", "r", "d", "a", " ", "x", " ", "=", " ", "1", " ", "/",
      " ", "0">>

\* guarda f = fun(a) { a } f(1 / 0)
Src_ArgError ==
    <<"g", "u", "a", "r", "d", "a", " ", "f", " ", "=", " ", "f", "u", "n",
      "(", "a", ")", " ", "{", " ", "a", " ", "}", " ", "f", "(", "1", " ",
      "/", " ", "0", ")">>

\* clase C { guarda v = 1 / 0 }
Src_PropertyError ==
    <<"c", "l", "a", "s", "e", " ", "C", " ", "{", " ", "g", "u", "a", "r",
      "d", "a", " ", "v", " ", "=", " ", "1", " ", "/", " ", "0", " ", "}">>

\* guarda z = zz
Src_LetUnknown ==
    <<"g", "u", "a", "r", "d", "a", " ", "z", " ", "=", " ", "z", "z">>

\* guarda a = [1, 2 / 0]
Src_LetArrayError ==
    <<"g", "u", "a", "r", "d", "a", " ", "a", " ", "=", " ", "[", "1", ",",
      " ", "2", " ", "/", " ", "0", "]">>

\* para (guarda i = 1 / 0; i < 1; guarda i = i + 1) { i }
Src_ForInitError ==
    <<"p", "a", "r", "a", " ", "(", "g", "u", "a", "r", "d", "a", " ", "i",
      " ", "=", " ", "1", " ", "/", " ", "0", ";", " ", "i", " ", "<", " ",
      "1", ";", " ", "g", "u", "a", "r", "d", "a", " ", "i", " ", "=", " ",
      "i", " ", "+", " ", "1", ")", " ", "{", " ", "i", " ", "}">>

\* clase C { fun crear() { 1 / 0 } nuevo C
Src_Constructor ==
    <<"c", "l", "a", "s", "e", " ", "C", " ", "{", " ", "f", "u", "n", " ",
      "c", "r", "e", "a", "r", "(", ")", " ", "{", " ", "1", " ", "/", " ",
      "0", " ", "}", " ", "n", "u", "e", "v", "o", " ", "C">>

\* clase C { fun crear() { 1 / 0 } nuevo C mostrar(2)
Src_ConstructorThen ==
    <<"c", "l", "a", "s", "e", " ", "C", " ", "{", " ", "f", "u", "n", " ",
      "c", "r", "e", "a", "r", "(", ")", " ", "{", " ", "1", " ", "/", " ",
      "0", " ", "}", " ", "n", "u", "e", "v", "o", " ", "C", " ", "m", "o",
      "s", "t", "r", "a", "r", "(", "2", ")">>

\* clase C { fun }
Src_ClassPanic ==
    <<"c", "l", "a", "s", "e", " ", "C", " ", "{", " ", "f", "u", "n", " ",
      "}">>

\* clase C { guarda }
Src_ClassHang ==
    <<"c", "l", "a", "s", "e", " ", "C", " ", "{", " ", "g", "u", "a", "r",
      "d", "a", " ", "}">>

\* two instances of a class, a method with a parameter and a declaration called on each
\* clase C { guarda v = 5 fun m(a) { guarda b = a b } guarda c = nuevo C guarda d = nuevo C c.m(1) d.m(2)
Src_TwoInstances ==
    <<"c", "l", "a", "s", "e", " ", "C", " ", "{", " ", "g", "u", "a", "r",
      "d", "a", " ", "v", " ", "=", " ", "5", " ", "f", "u", "n", " ", "m",
      "(", "a", ")", " ", "{", " ", "g", "u", "a", "r", "d", "a", " ", "b",
      " ", "=", " ", "a", " ", "b", " ", "}", " ", "g", "u", "a", "r", "d",
      "a", " ", "c", " ", "=", " ", "n", "u", "e", "v", "o", " ", "C", " ",
      "g", "u", "a", "r", "d", "a", " ", "d", " ", "=", " ", "n", "u", "e",
      "v", "o", " ", "C", " ", "c", ".", "m", "(", "1", ")", " ", "d", ".",
      "m", "(", "2", ")">>

\* a declaration written with :=
\* x := 5 x
Src_Walrus ==
    <<"x", " ", ":", "=", " ", "5", " ", "x">>

\* a declaration written with guarda
\* guarda x = 5 x
Src_Declare ==
    <<"g", "u", "a", "r", "d", "a", " ", "x", " ", "=", " ", "5", " ", "x">>

\* an assignment to a declared name
\* guarda x = 1 x = 5 x
Src_Assign ==
    <<"g", "u", "a", "r", "d", "a", " ", "x", " ", "=", " ", "1", " ", "x",
      " ", "=", " ", "5", " ", "x">>

\* an assignment inside a function to a name of the enclosing scope
\* guarda x = 1 guarda f = fun() { x = 5 x } f() x
Src_AssignNested ==
    <<"g", "u", "a", "r", "d", "a", " ", "x", " ", "=", " ", "1", " ", "g",
      "u", "a", "r", "d", "a", " ", "f", " ", "=", " ", "f", "u", "n", "(",
      ")", " ", "{", " ", "x", " ", "=", " ", "5", " ", "x", " ", "}", " ",
      "f", "(", ")", " ", "x">>

\* nuevo with an argument for the parameter of crear
\* clase C { fun crear(a) { a } nuevo C(7)
Src_NewArgs ==
    <<"c", "l", "a", "s", "e", " ", "C", " ", "{", " ", "f", "u", "n", " ",
      "c", "r", "e", "a", "r", "(", "a", ")", " ", "{", " ", "a", " ", "}",
      " ", "n", "u", "e", "v", "o", " ", "C", "(", "7", ")">>

\* nuevo without an argument list
\* clase C { guarda v = 5 } nuevo C
Src_NewPlain ==
    <<"c", "l", "a", "s", "e", " ", "C", " ", "{", " ", "g", "u", "a", "r",
      "d", "a", " ", "v", " ", "=", " ", "5", " ", "}", " ", "n", "u", "e",
      "v", "o", " ", "C">>

\* a named function declared by a statement and called after it
\* fun f(a) { a } f(3)
Src_NamedFunction ==
    <<"f", "u", "n", " ", "f", "(", "a", ")", " ", "{", " ", "a", " ", "}",
      " ", "f", "(", "3", ")">>

\* a class with a declaration and a method, closed, and a statement after it
\* clase C { guarda v = 5 fun m() { 1 } } 7
Src_ClassMembers ==
    <<"c", "l", "a", "s", "e", " ", "C", " ", "{", " ", "g", "u", "a", "r",
      "d", "a", " ", "v", " ", "=", " ", "5", " ", "f", "u", "n", " ", "m",
      "(", ")", " ", "{", " ", "1", " ", "}", " ", "}", " ", "7">>

\* a class with two declarations and a member that is neither, closed
\* clase C { guarda v = 5 3 guarda w = 6 } 7
Src_ClassSkipped ==
    <<"c", "l", "a", "s", "e", " ", "C", " ", "{", " ", "g", "u", "a", "r",
      "d", "a", " ", "v", " ", "=", " ", "5", " ", "3", " ", "g", "u", "a",
      "r", "d", "a", " ", "w", " ", "=", " ", "6", " ", "}", " ", "7">>

\* a method reads x; the instance is created where a parameter x hides the
\* x of the class's scope
\* guarda x = 1 clase C { fun m() { x } fun(x) { nuevo C }(2).m()
Src_MethodScope ==
    <<"g", "u", "a", "r", "d", "a", " ", "x", " ", "=", " ", "1", " ", "c",
      "l", "a", "s", "e", " ", "C", " ", "{", " ", "f", "u", "n", " ", "m",
      "(", ")", " ", "{", " ", "x", " ", "}", " ", "f", "u", "n", "(", "x",
      ")", " ", "{", " ", "n", "u", "e", "v", "o", " ", "C", " ", "}", "(",
      "2", ")", ".", "m", "(", ")">>

\* a method reads x; the instance is created in the scope of the class
\* guarda x = 1 clase C { fun m() { x } guarda c = nuevo C c.m()
Src_MethodSameScope ==
    <<"g", "u", "a", "r", "d", "a", " ", "x", " ", "=", " ", "1", " ", "c",
      "l", "a", "s", "e", " ", "C", " ", "{", " ", "f", "u", "n", " ", "m",
      "(", ")", " ", "{", " ", "x", " ", "}", " ", "g", "u", "a", "r", "d",
      "a", " ", "c", " ", "=", " ", "n", "u", "e", "v", "o", " ", "C", " ",
      "c", ".", "m", "(", ")">>

\* a si whose block is empty
\* si (verdad) { }
Src_EmptyIf ==
    <<"s", "i", " ", "(", "v", "e", "r", "d", "a", "d", ")", " ", "{", " ",
      "}">>

\* a si whose block is empty, printed
\* mostrar(si (verdad) { })
Src_EmptyIfShown ==
    <<"m", "o", "s", "t", "r", "a", "r", "(", "s", "i", " ", "(", "v", "e",
      "r", "d", "a", "d", ")", " ", "{", " ", "}", ")">>

\* a call of a function whose body is empty, as an operand
\* 1 + fun() { }()
Src_EmptyCallOperand ==
    <<"1", " ", "+", " ", "f", "u", "n", "(", ")", " ", "{", " ", "}", "(",
      ")">>

NamedSources ==
    {Src_OrDivZero, Src_AndDivZero, Src_OrShows, Src_AndShows, Src_ShowOr,
     Src_OrRight, Src_AndRight, Src_EstoRead, Src_EstoReturn,
     Src_EstoOpen, Src_MethodOpen, Src_Rebound, Src_BoundLater,
     Src_CalledTwice, Src_ParseError, Src_DivZero, Src_Clean, Src_Empty,
     Src_Salir, Src_LetReturn, Src_LetReturnInFunction, Src_ArrayReturn,
     Src_LetError, Src_ArgError, Src_PropertyError, Src_LetUnknown,
     Src_LetArrayError, Src_ForInitError, Src_Constructor,
     Src_ConstructorThen, Src_ClassPanic, Src_ClassHang,
     Src_TwoInstances, Src_Walrus, Src_Declare, Src_Assign,
     Src_AssignNested, Src_NewArgs, Src_NewPlain, Src_NamedFunction,
     Src_ClassMembers, Src_ClassSkipped, Src_MethodScope,
     Src_MethodSameScope, Src_EmptyIf, Src_EmptyIfShown,
     Src_EmptyCallOperand}

OtherSources ==
    {
       \* -(1 / 0)
       <<"-", "(", "1", " ", "/", " ", "0", ")">>,
       \* !(1 / 0)
       <<"!", "(", "1", " ", "/", " ", "0", ")">>,
       \* mostrar(1 / 0, mostrar(2))
       <<"m", "o", "s", "t", "r", "a", "r", "(", "1", " ", "/", " ", "0",
         ",", " ", "m", "o", "s", "t", "r", "a", "r", "(", "2", ")", ")">>,
       \* [1 / 0, mostrar(2)]
       <<"[", "1", " ", "/", " ", "0", ",", " ", "m", "o", "s", "t", "r",
         "a", "r", "(", "2", ")", "]">>,
       \* {1 / 0: mostrar(2)}
       <<"{", "1", " ", "/", " ", "0", ":", " ", "m", "o", "s", "t", "r",
         "a", "r", "(", "2", ")", "}">>,
       \* {1: 1 / 0, 2: mostrar(2)}
       <<"{", "1", ":", " ", "1", " ", "/", " ", "0", ",", " ", "2", ":",
         " ", "m", "o", "s", "t", "r", "a", "r", "(", "2", ")", "}">>,
       \* [1][1 / 0]
       <<"[", "1", "]", "[", "1", " ", "/", " ", "0", "]">>,
       \* (1 / 0).z
       <<"(", "1", " ", "/", " ", "0", ")", ".", "z">>,
       \* (1 / 0) + mostrar(2)
       <<"(", "1", " ", "/", " ", "0", ")", " ", "+", " ", "m", "o", "s",
         "t", "r", "a", "r", "(", "2", ")">>,
       \* si (1 / 0) { mostrar(2) }
       <<"s", "i", " ", "(", "1", " ", "/", " ", "0", ")", " ", "{", " ",
         "m", "o", "s", "t", "r", "a", "r", "(", "2", ")", " ", "}">>,
       \* si (verdad) { 1 / 0 mostrar(2) } sino { 3 }
       <<"s", "i", " ", "(", "v", "e", "r", "d", "a", "d", ")", " ", "{",
         " ", "1", " ", "/", " ", "0", " ", "m", "o", "s", "t", "r", "a",
         "r", "(", "2", ")", " ", "}", " ", "s", "i", "n", "o", " ", "{",
         " ", "3", " ", "}">>,
       \* mientras (1 / 0) { mostrar(2) }
       <<"m", "i", "e", "n", "t", "r", "a", "s", " ", "(", "1", " ", "/",
         " ", "0", ")", " ", "{", " ", "m", "o", "s", "t", "r", "a", "r",
         "(", "2", ")", " ", "}">>,
       \* guarda n = 0 mientras (n < 2) { guarda n = n + 1 1 % 0 }
       <<"g", "u", "a", "r", "d", "a", " ", "n", " ", "=", " ", "0", " ",
         "m", "i", "e", "n", "t", "r", "a", "s", " ", "(", "n", " ", "<",
         " ", "2", ")", " ", "{", " ", "g", "u", "a", "r", "d", "a", " ",
         "n", " ", "=", " ", "n", " ", "+", " ", "1", " ", "1", " ", "%",
         " ", "0", " ", "}">>,
       \* para (guarda i = 0; i < 2; guarda i = i + 1) { 1 / 0 mostrar(2) }
       <<"p", "a", "r", "a", " ", "(", "g", "u", "a", "r", "d", "a", " ",
         "i", " ", "=", " ", "0", ";", " ", "i", " ", "<", " ", "2", ";",
         " ", "g", "u", "a", "r", "d", "a", " ", "i", " ", "=", " ", "i",
         " ", "+", " ", "1", ")", " ", "{", " ", "1", " ", "/", " ", "0",
         " ", "m", "o", "s", "t", "r", "a", "r", "(", "2", ")", " ", "}">>,
       \* fun() { 1 / 0 mostrar(2) }()
       <<"f", "u", "n", "(", ")", " ", "{", " ", "1", " ", "/", " ", "0",
         " ", "m", "o", "s", "t", "r", "a", "r", "(", "2", ")", " ", "}",
         "(", ")">>,
       \* devolver 1 / 0
       <<"d", "e", "v", "o", "l", "v", "e", "r", " ", "1", " ", "/", " ",
         "0">>,
       \* nuevo (1 / 0)
       <<"n", "u", "e", "v", "o", " ", "(", "1", " ", "/", " ", "0", ")">>,
       \* nuevo C(1)
       <<"n", "u", "e", "v", "o", " ", "C", "(", "1", ")">>,
       \* para (guarda i = 0; i < 3; guarda i = i + 1) { mostrar(i) }
       <<"p", "a", "r", "a", " ", "(", "g", "u", "a", "r", "d", "a", " ",
         "i", " ", "=", " ", "0", ";", " ", "i", " ", "<", " ", "3", ";",
         " ", "g", "u", "a", "r", "d", "a", " ", "i", " ", "=", " ", "i",
         " ", "+", " ", "1", ")", " ", "{", " ", "m", "o", "s", "t", "r",
         "a", "r", "(", "i", ")", " ", "}">>,
       \* guarda n = 0 mientras (n < 2) { guarda n = n + 1 } n
       <<"g", "u", "a", "r", "d", "a", " ", "n", " ", "=", " ", "0", " ",
         "m", "i", "e", "n", "t", "r", "a", "s", " ", "(", "n", " ", "<",
         " ", "2", ")", " ", "{", " ", "g", "u", "a", "r", "d", "a", " ",
         "n", " ", "=", " ", "n", " ", "+", " ", "1", " ", "}", " ", "n">>,
       \* {1: 2, "a": 3}["a"]
       <<"{", "1", ":", " ", "2", ",", " ", "\"", "a", "\"", ":", " ", "3",
         "}", "[", "\"", "a", "\"", "]">>,
       \* {1: 2, 1: 3}[1]
       <<"{", "1", ":", " ", "2", ",", " ", "1", ":", " ", "3", "}", "[",
         "1", "]">>,
       \* [1, 2, 3][1]
       <<"[", "1", ",", " ", "2", ",", " ", "3", "]", "[", "1", "]">>,
       \* "ab" + "cd"
       <<"\"", "a", "b", "\"", " ", "+", " ", "\"", "c", "d", "\"">>,
       \* "abc".longitud
       <<"\"", "a", "b", "c", "\"", ".", "l", "o", "n", "g", "i", "t", "u",
         "d">>,
       \* contiene("abc", "b")
       <<"c", "o", "n", "t", "i", "e", "n", "e", "(", "\"", "a", "b", "c",
         "\"", ",", " ", "\"", "b", "\"", ")">>,
       \* longitud([1, 2])
       <<"l", "o", "n", "g", "i", "t", "u", "d", "(", "[", "1", ",", " ",
         "2", "]", ")">>,
       \* 1.5 + 2
       <<"1", ".", "5", " ", "+", " ", "2">>,
       \* !verdad
       <<"!", "v", "e", "r", "d", "a", "d">>,
       \* -5
       <<"-", "5">>,
       \* nulo
       <<"n", "u", "l", "o">>,
       \* fun f(a, b) { a + b }
       <<"f", "u", "n", " ", "f", "(", "a", ",", " ", "b", ")", " ", "{",
         " ", "a", " ", "+", " ", "b", " ", "}">>,
       \* guarda add = fun(a, b) { devolver a + b } add(1, 2)
       <<"g", "u", "a", "r", "d", "a", " ", "a", "d", "d", " ", "=", " ",
         "f", "u", "n", "(", "a", ",", " ", "b", ")", " ", "{", " ", "d",
         "e", "v", "o", "l", "v", "e", "r", " ", "a", " ", "+", " ", "b",
         " ", "}", " ", "a", "d", "d", "(", "1", ",", " ", "2", ")">>,
       \* guarda add = fun(a, b) { a } add(1)
       <<"g", "u", "a", "r", "d", "a", " ", "a", "d", "d", " ", "=", " ",
         "f", "u", "n", "(", "a", ",", " ", "b", ")", " ", "{", " ", "a",
         " ", "}", " ", "a", "d", "d", "(", "1", ")">>,
       \* clase C { guarda v = 5 } guarda c = nuevo C c.v
       <<"c", "l", "a", "s", "e", " ", "C", " ", "{", " ", "g", "u", "a",
         "r", "d", "a", " ", "v", " ", "=", " ", "5", " ", "}", " ", "g",
         "u", "a", "r", "d", "a", " ", "c", " ", "=", " ", "n", "u", "e",
         "v", "o", " ", "C", " ", "c", ".", "v">>,
       \* clase C { guarda v = 5 }
       <<"c", "l", "a", "s", "e", " ", "C", " ", "{", " ", "g", "u", "a",
         "r", "d", "a", " ", "v", " ", "=", " ", "5", " ", "}">>,
       \* clase C { fun m() { 1 }
       <<"c", "l", "a", "s", "e", " ", "C", " ", "{", " ", "f", "u", "n",
         " ", "m", "(", ")", " ", "{", " ", "1", " ", "}">>,
       \* si (a < b) { 1 } sino { 2 }
       <<"s", "i", " ", "(", "a", " ", "<", " ", "b", ")", " ", "{", " ",
         "1", " ", "}", " ", "s", "i", "n", "o", " ", "{", " ", "2", " ",
         "}">>,
       \* si (x) { 1 }
       <<"s", "i", " ", "(", "x", ")", " ", "{", " ", "1", " ", "}">>,
       \* mientras (a < 1) { x }
       <<"m", "i", "e", "n", "t", "r", "a", "s", " ", "(", "a", " ", "<",
         " ", "1", ")", " ", "{", " ", "x", " ", "}">>,
       \* guarda x = 1; guarda z = 2;
       <<"g", "u", "a", "r", "d", "a", " ", "x", " ", "=", " ", "1", ";",
         " ", "g", "u", "a", "r", "d", "a", " ", "z", " ", "=", " ", "2",
         ";">>,
       \* x z
       <<"x", " ", "z">>,
       \* a.b
       <<"a", ".", "b">>,
       \* x[1]
       <<"x", "[", "1", "]">>,
       \* -1 + !x
       <<"-", "1", " ", "+", " ", "!", "x">>,
       \* devolver 1;
       <<"d", "e", "v", "o", "l", "v", "e", "r", " ", "1", ";">>,
       \* // c\n1
       <<"/", "/", " ", "c", "\n", "1">>,
       \* guarda s = "a b"
       <<"g", "u", "a", "r", "d", "a", " ", "s", " ", "=", " ", "\"", "a",
         " ", "b", "\"">>,
       \* 1 == 1
       <<"1", " ", "=", "=", " ", "1">>,
       \* verdad != falso
       <<"v", "e", "r", "d", "a", "d", " ", "!", "=", " ", "f", "a", "l",
         "s", "o">>,
       \* mostrar(si (falso) { 1 })
       <<"m", "o", "s", "t", "r", "a", "r", "(", "s", "i", " ", "(", "f",
         "a", "l", "s", "o", ")", " ", "{", " ", "1", " ", "}", ")">>,
       \* mostrar(si (verdad) { })
       <<"m", "o", "s", "t", "r", "a", "r", "(", "s", "i", " ", "(", "v",
         "e", "r", "d", "a", "d", ")", " ", "{", " ", "}", ")">>,
       \* 2 ^ 3
       <<"2", " ", "^", " ", "3">>,
       \* 7 % 3 - 7 / 2
       <<"7", " ", "%", " ", "3", " ", "-", " ", "7", " ", "/", " ", "2">>
    }

Sources == NamedSources \cup OtherSources

\* para (init; condition; update) { 1 } with each of the three sections
\* written or left out
ForText(init, condition, update) ==
    <<"p", "a", "r", "a", " ", "(">>
    \o (IF init THEN <<"g", "u", "a", "r", "d", "a", " ", "i", " ", "=", " ", "0">>
        ELSE <<>>)
    \o <<";">>
    \o (IF condition THEN <<" ", "i", " ", "<", " ", "2">> ELSE <<" ">>)
    \o <<";">>
    \o (IF update
        THEN <<" ", "g", "u", "a", "r", "d", "a", " ", "i", " ", "=", " ",
               "i", " ", "+", " ", "1">>
        ELSE <<>>)
    \o <<")", " ", "{", " ", "1", " ", "}">>

ForSources ==
    {ForText(init, condition, update) :
         init \in BOOLEAN, condition \in BOOLEAN, update \in BOOLEAN}

-----------------------------------------------------------------------------
(* The command-line driver, file mode (main, executeFile, evaluateInput)    *)

GABY_EXTENSION == <<".", "g", "a", "b", "y">>

\* strings.HasSuffix
HasSuffix(s, suffix) ==
    /\ Len(s) >= Len(suffix)
    /\ SubSeq(s, Len(s) - Len(suffix) + 1, Len(s)) = suffix

\* file names given on the command line
FileGaby == <<"a", ".", "g", "a", "b", "y">>
FileTxt == <<"a", ".", "t", "x", "t">>

\* the position of a run that touches nothing of the driver
Idle == "idle"

\* printParserErrors: a heading and a line for each message
printParserErrors(errors) ==
    <<"Ops! Encontre algunos errores:">>
    \o [i \in 1..Len(errors) |-> "\t- " \o errors[i].kind]

\* main up to the call of evaluateInput: the global environment with the
\* standard library, the checks of the arguments, and executeFile's reading of
\* the file
Main ==
    /\ pc = "main"
    /\ LET e == NewEnvironment(world)
           w == LoadStdlib(e.w, e.env)
       IN IF Len(cmdline.argv) # 1
          THEN /\ world' = [w EXCEPT !.out = Append(@, "Uso: gaby [archivo.gaby]")]
               /\ exitCode' = 1
               /\ pc' = "exited"
          ELSE IF ~HasSuffix(cmdline.argv[1], GABY_EXTENSION)
          THEN /\ world' = [w EXCEPT !.out =
                               Append(@, "Error: El archivo debe tener extension "
                                         \o Concat(GABY_EXTENSION))]
               /\ exitCode' = 1
               /\ pc' = "exited"
          ELSE IF ~cmdline.readable
          THEN /\ world' = [w EXCEPT !.out = Append(@, "Error al leer el archivo")]
               /\ exitCode' = 1
               /\ pc' = "exited"
          ELSE /\ world' = w
               /\ exitCode' = exitCode
               /\ pc' = "evaluateInput"
    /\ UNCHANGED <<lexer, tokens, cmdline, ast, nextStmt, resultObj, operands,
                   printed, reparsed, repl>>

\* evaluateInput after ParseProgram: a panic of the parser ends the process,
\* a parser that never returns leaves it running, parse errors are printed
\* and nil is returned, and else Eval is called
EvaluateInput_parsed(parsed) ==
    /\ ast' = parsed
    /\ IF parsed.p.abort = "panic"
       THEN /\ pc' = "exited"
            /\ exitCode' = 2
            /\ UNCHANGED <<world, resultObj>>
       ELSE IF parsed.p.abort = "hang"
       THEN /\ pc' = "hung"
            /\ UNCHANGED <<world, resultObj, exitCode>>
       ELSE IF Len(parsed.p.errors) # 0
       THEN /\ world' = [world EXCEPT !.out =
                            @ \o printParserErrors(parsed.p.errors)]
            /\ resultObj' = GoNil
            /\ pc' = "executeFile"
            /\ UNCHANGED exitCode
       ELSE /\ pc' = IF Len(parsed.node.Statements) = 0 THEN "executeFile"
                     ELSE "evalProgram"
            /\ resultObj' = GoNil
            /\ UNCHANGED <<world, exitCode>>

\* evaluateInput up to the call of Eval: the file's text is lexed and parsed
EvaluateInput ==
    /\ pc = "evaluateInput"
    /\ EvaluateInput_parsed(ParseSource(cmdline.source))
    /\ nextStmt' = 1
    /\ UNCHANGED <<lexer, tokens, cmdline, operands, printed, reparsed, repl>>

\* what a round of evalProgram's loop leaves: a panic or os.Exit ends the
\* process, a return or an Error ends the loop
EvalProgramStep_result(s) ==
    /\ world' = s.w
    /\ IF s.w.halt # ""
       THEN /\ pc' = "exited"
            /\ exitCode' = s.w.code
            /\ UNCHANGED <<resultObj, nextStmt>>
       ELSE /\ resultObj' = s.val
            /\ nextStmt' = nextStmt + 1
            /\ pc' = IF s.done \/ nextStmt = Len(ast.node.Statements)
                     THEN "executeFile" ELSE "evalProgram"
            /\ UNCHANGED exitCode

\* one round of evalProgram's loop, on the statement nextStmt
EvalProgramStep ==
    /\ pc = "evalProgram"
    /\ EvalProgramStep_result(evalProgramStep(ast.node.Statements[nextStmt], 1,
                                              world))
    /\ UNCHANGED <<lexer, tokens, cmdline, ast, operands, printed, reparsed,
                   repl>>

\* executeFile after evaluateInput has returned, and main's return
ExecuteFile ==
    /\ pc = "executeFile"
    /\ IF resultObj.Type # "nil" /\ resultObj.Type = ERROR_OBJ
       THEN /\ world' = [world EXCEPT !.out = Append(@, Inspect(resultObj, world))]
            /\ exitCode' = 1
       ELSE /\ exitCode' = 0
            /\ UNCHANGED world
    /\ pc' = "exited"
    /\ UNCHANGED <<lexer, tokens, cmdline, ast, nextStmt, resultObj, operands,
                   printed, reparsed, repl>>

\* the command lines and files of the runs: every source in a readable .gaby
\* file, a file that cannot be read, a file of another extension, two arguments
CommandLines ==
    {[argv |-> <<FileGaby>>, readable |-> TRUE, source |-> s] : s \in Sources}
    \cup {[argv |-> <<FileGaby>>, readable |-> FALSE, source |-> Src_Clean],
          [argv |-> <<FileTxt>>, readable |-> TRUE, source |-> Src_Clean],
          [argv |-> <<FileGaby, FileGaby>>, readable |-> TRUE,
           source |-> Src_Clean]}

Init ==
    /\ cmdline \in CommandLines
    /\ \E hashRev \in BOOLEAN, zeroSizeEqual \in BOOLEAN :
           world = NewWorld(hashRev, zeroSizeEqual)
    /\ pc = "main"
    /\ ast = Idle
    /\ nextStmt = 1
    /\ resultObj = GoNil
    /\ exitCode = -1
    /\ lexer = Idle
    /\ tokens = <<>>
    /\ operands = Idle
    /\ printed = <<>>
    /\ reparsed = Idle
    /\ repl = Idle

Next == Main \/ EvaluateInput \/ EvalProgramStep \/ ExecuteFile

Spec == Init /\ [][Next]_vars

-----------------------------------------------------------------------------
(* PrintSpec: a source is parsed, its AST printed, the print parsed again   *)

PrintInit ==
    /\ cmdline \in {[argv |-> <<>>, readable |-> TRUE, source |-> s] :
                        s \in Sources \cup ForSources}
    /\ \E hashRev \in BOOLEAN : world = NewWorld(hashRev, FALSE)
    /\ pc = "parse"
    /\ ast = Idle
    /\ nextStmt = 1
    /\ resultObj = GoNil
    /\ exitCode = -1
    /\ lexer = Idle
    /\ tokens = <<>>
    /\ operands = Idle
    /\ printed = <<>>
    /\ reparsed = Idle
    /\ repl = Idle

\* lexer.New, parser.New, ParseProgram; only a parse that returns without
\* errors goes on to be printed
PrintParse_parsed(parsed) ==
    /\ ast' = parsed
    /\ pc' = IF parsed.p.abort = "" /\ Len(parsed.p.errors) = 0
             THEN "print" ELSE "rejected"

PrintParse ==
    /\ pc = "parse"
    /\ PrintParse_parsed(ParseSource(cmdline.source))
    /\ UNCHANGED <<lexer, tokens, cmdline, world, nextStmt, resultObj,
                   exitCode, operands, printed, reparsed, repl>>

\* ast.String()
PrintString ==
    /\ pc = "print"
    /\ printed' = String(ast.node, world.hashRev)
    /\ pc' = "reparse"
    /\ UNCHANGED <<lexer, tokens, cmdline, world, ast, nextStmt, resultObj,
                   exitCode, operands, reparsed, repl>>

\* the printed text through lexer.New, parser.New, ParseProgram
PrintReparse ==
    /\ pc = "reparse"
    /\ reparsed' = ParseSource(printed)
    /\ pc' = "done"
    /\ UNCHANGED <<lexer, tokens, cmdline, world, ast, nextStmt, resultObj,
                   exitCode, operands, printed, repl>>

PrintNext == PrintParse \/ PrintString \/ PrintReparse

PrintSpec == PrintInit /\ [][PrintNext]_vars

-----------------------------------------------------------------------------
(* ArithSpec: evalInfixExpression on two Integer objects                    *)

ArithOperators == {"+", "-", "*", "/", "%"}

\* operands at and around the ends of the machine word and around zero
ArithValues ==
    {MinInt, MinInt + 1, MinInt \div 2, -3, -2, -1, 0, 1, 2, 3, MaxInt \div 2,
     MaxInt \div 2 + 1, MaxInt - 1, MaxInt}

ArithInit ==
    /\ operands \in [operator : ArithOperators, left : ArithValues,
                     right : ArithValues]
    /\ world = NewWorld(FALSE, FALSE)
    /\ pc = "operands"
    /\ resultObj = GoNil
    /\ cmdline = Idle
    /\ ast = Idle
    /\ nextStmt = 1
    /\ exitCode = -1
    /\ lexer = Idle
    /\ tokens = <<>>
    /\ printed = <<>>
    /\ reparsed = Idle
    /\ repl = Idle

\* evalInfixExpression(operator, left, right) on Integer objects
ArithEval ==
    /\ pc = "operands"
    /\ resultObj' = evalInfixExpression(operands.operator, Integer(operands.left),
                                     Integer(operands.right), world)
    /\ pc' = "done"
    /\ UNCHANGED <<lexer, tokens, cmdline, world, ast, nextStmt, exitCode,
                   operands, printed, reparsed, repl>>

ArithNext == ArithEval

ArithSpec == ArithInit /\ [][ArithNext]_vars

-----------------------------------------------------------------------------
(* TruthSpec: the value of a condition and isTruthy of it, as the first     *)
(* lines of evalIfExpression compute them                                   *)

\* the conditions: one expression each, of every type of object, produced by
\* literals, by operators and by the built-in functions
TruthSources ==
    {
       \* nulo
       <<"n", "u", "l", "o">>,
       \* verdad
       <<"v", "e", "r", "d", "a", "d">>,
       \* falso
       <<"f", "a", "l", "s", "o">>,
       \* 0
       <<"0">>,
       \* 1
       <<"1">>,
       \* -1
       <<"-", "1">>,
       \* 0.0
       <<"0", ".", "0">>,
       \* 1.5
       <<"1", ".", "5">>,
       \* ""
       <<"\"", "\"">>,
       \* "a"
       <<"\"", "a", "\"">>,
       \* []
       <<"[", "]">>,
       \* [0]
       <<"[", "0", "]">>,
       \* {}
       <<"{", "}">>,
       \* fun() { 0 }
       <<"f", "u", "n", "(", ")", " ", "{", " ", "0", " ", "}">>,
       \* 1 - 1
       <<"1", " ", "-", " ", "1">>,
       \* 0.5 - 0.5
       <<"0", ".", "5", " ", "-", " ", "0", ".", "5">>,
       \* 1 == 2
       <<"1", " ", "=", "=", " ", "2">>,
       \* 1 == 1
       <<"1", " ", "=", "=", " ", "1">>,
       \* !verdad
       <<"!", "v", "e", "r", "d", "a", "d">>,
       \* !0
       <<"!", "0">>,
       \* "" + ""
       <<"\"", "\"", " ", "+", " ", "\"", "\"">>,
       \* contiene("ab", "a")
       <<"c", "o", "n", "t", "i", "e", "n", "e", "(", "\"", "a", "b", "\"",
         ",", " ", "\"", "a", "\"", ")">>,
       \* contiene("ab", "z")
       <<"c", "o", "n", "t", "i", "e", "n", "e", "(", "\"", "a", "b", "\"",
         ",", " ", "\"", "z", "\"", ")">>,
       \* mostrar(1)
       <<"m", "o", "s", "t", "r", "a", "r", "(", "1", ")">>,
       \* mostrar
       <<"m", "o", "s", "t", "r", "a", "r">>,
       \* longitud("")
       <<"l", "o", "n", "g", "i", "t", "u", "d", "(", "\"", "\"", ")">>,
       \* longitud("a")
       <<"l", "o", "n", "g", "i", "t", "u", "d", "(", "\"", "a", "\"", ")">>,
       \* si (falso) { 1 }
       <<"s", "i", " ", "(", "f", "a", "l", "s", "o", ")", " ", "{", " ",
         "1", " ", "}">>,
       \* nulo == nulo
       <<"n", "u", "l", "o", " ", "=", "=", " ", "n", "u", "l", "o">>,
       \* mostrar(1) == nulo
       <<"m", "o", "s", "t", "r", "a", "r", "(", "1", ")", " ", "=", "=",
         " ", "n", "u", "l", "o">>
    }

TruthInit ==
    /\ cmdline \in {[argv |-> <<>>, readable |-> TRUE, source |-> s] :
                        s \in TruthSources}
    /\ \E hashRev \in BOOLEAN, zeroSizeEqual \in BOOLEAN :
           world = NewWorld(hashRev, zeroSizeEqual)
    /\ pc = "condition"
    /\ ast = Idle
    /\ nextStmt = 1
    /\ resultObj = GoNil
    /\ exitCode = -1
    /\ lexer = Idle
    /\ tokens = <<>>
    /\ operands = Idle
    /\ printed = <<>>
    /\ reparsed = Idle
    /\ repl = Idle

\* isTruthy(condition) for the object the condition evaluated to
TruthCondition_evaluated(condition) ==
    /\ world' = condition.w
    /\ IF Halted(condition) \/ condition.val.Type = "nil"
       THEN /\ pc' = "rejected"
            /\ UNCHANGED <<resultObj, operands>>
       ELSE /\ resultObj' = condition.val
            /\ operands' = [truthy |-> isTruthy(condition.val, condition.w)]
            /\ pc' = "done"

\* condition := Eval(ie.Condition, env), in the global environment with the
\* standard library loaded
TruthCondition_parsed(parsed) ==
    /\ ast' = parsed
    /\ IF parsed.p.abort # "" \/ Len(parsed.p.errors) # 0
       THEN /\ pc' = "rejected"
            /\ UNCHANGED <<world, resultObj, operands>>
       ELSE TruthCondition_evaluated(
                Eval(parsed.node.Statements[1].Expression, 1,
                     LoadStdlib(NewEnvironment(world).w, 1)))

TruthCondition ==
    /\ pc = "condition"
    /\ TruthCondition_parsed(ParseSource(cmdline.source))
    /\ UNCHANGED <<lexer, tokens, cmdline, nextStmt, exitCode, printed,
                   reparsed, repl>>

TruthNext == TruthCondition

TruthSpec == TruthInit /\ [][TruthNext]_vars

-----------------------------------------------------------------------------
(* LogicSpec: evalInfixExpression with the operators y and o, and           *)
(* evalPrefixExpression with !, on objects of every type                    *)

\* the operands: the evaluator's singletons, numbers and strings that are
\* zero or empty and that are not, the singletons of the standard library, a
\* Null made by a built-in function, an array
LogicValues ==
    {NULL, TRUE_OBJ, FALSE_OBJ, Integer(0), Integer(1), Float(0), Float(15),
     StringObj(<<>>), StringObj(<<"a">>), stdlib_TRUE, stdlib_FALSE, NewNull,
     Array(<<>>, 1)}

LogicInit ==
    /\ operands \in [operator : {"y", "o"}, left : LogicValues,
                     right : LogicValues]
                    \cup [operator : {"!"}, left : {NULL}, right : LogicValues]
    /\ \E zeroSizeEqual \in BOOLEAN : world = NewWorld(FALSE, zeroSizeEqual)
    /\ pc = "operands"
    /\ resultObj = GoNil
    /\ cmdline = Idle
    /\ ast = Idle
    /\ nextStmt = 1
    /\ exitCode = -1
    /\ lexer = Idle
    /\ tokens = <<>>
    /\ printed = <<>>
    /\ reparsed = Idle
    /\ repl = Idle

\* evalInfixExpression(operator, left, right)
LogicInfix ==
    /\ pc = "operands"
    /\ operands.operator \in {"y", "o"}
    /\ resultObj' = evalInfixExpression(operands.operator, operands.left,
                                        operands.right, world)
    /\ pc' = "done"
    /\ UNCHANGED <<lexer, tokens, cmdline, world, ast, nextStmt, exitCode,
                   operands, printed, reparsed, repl>>

\* evalPrefixExpression(operator, right)
LogicPrefix ==
    /\ pc = "operands"
    /\ operands.operator = "!"
    /\ resultObj' = evalPrefixExpression(operands.operator, operands.right,
                                         world)
    /\ pc' = "done"
    /\ UNCHANGED <<lexer, tokens, cmdline, world, ast, nextStmt, exitCode,
                   operands, printed, reparsed, repl>>

LogicNext == LogicInfix \/ LogicPrefix

LogicSpec == LogicInit /\ [][LogicNext]_vars

-----------------------------------------------------------------------------
(* CallSpec: applyFunction of a Function of n parameters on k arguments     *)

\* a function literal of no parameter whose body shows the parameters
\* fun() { [] }
Fn_NoParameters ==
    <<"f", "u", "n", "(", ")", " ", "{", " ", "[", "]", " ", "}">>

\* a function literal of one parameter whose body shows the parameters
\* fun(a) { [a] }
Fn_OneParameter ==
    <<"f", "u", "n", "(", "a", ")", " ", "{", " ", "[", "a", "]", " ", "}">>

\* a function literal of two parameters whose body shows the parameters
\* fun(a, b) { [a, b] }
Fn_TwoParameters ==
    <<"f", "u", "n", "(", "a", ",", " ", "b", ")", " ", "{", " ", "[", "a",
      ",", " ", "b", "]", " ", "}">>

\* a function literal of three parameters whose body shows the parameters
\* fun(a, b, c) { [a, b, c] }
Fn_ThreeParameters ==
    <<"f", "u", "n", "(", "a", ",", " ", "b", ",", " ", "c", ")", " ", "{",
      " ", "[", "a", ",", " ", "b", ",", " ", "c", "]", " ", "}">>

CallFunctions ==
    {Fn_NoParameters, Fn_OneParameter, Fn_TwoParameters, Fn_ThreeParameters}

\* the lists of at most three arguments
CallArguments ==
    UNION {[1..k -> {Integer(1), Integer(2)}] : k \in 0..3}

\* a global scope, and under it the scope the function literal is evaluated
\* in (the captured scope) and the scope of the caller
CallGlobal == NewEnvironment(NewWorld(FALSE, FALSE))
CallCapturedEnv == NewEnclosedEnvironment(CallGlobal.env, CallGlobal.w)
CallCallerEnv == NewEnclosedEnvironment(CallGlobal.env, CallCapturedEnv.w)
CallCaptured == CallCapturedEnv.env

\* the scopes before the call; the captured scope binds a and the caller's
\* scope binds b when asked to
CallWorld(captured, caller) ==
    LET w == IF captured
             THEN Set(CallCallerEnv.w, CallCaptured, <<"a">>, Integer(7))
             ELSE CallCallerEnv.w
    IN IF caller THEN Set(w, CallCallerEnv.env, <<"b">>, Integer(8)) ELSE w

CallInit ==
    /\ operands \in [text : CallFunctions, args : CallArguments,
                     captured : BOOLEAN, caller : BOOLEAN]
    /\ world = CallWorld(operands.captured, operands.caller)
    /\ pc = "operands"
    /\ resultObj = GoNil
    /\ cmdline = Idle
    /\ ast = Idle
    /\ nextStmt = 1
    /\ exitCode = -1
    /\ lexer = Idle
    /\ tokens = <<>>
    /\ printed = <<>>
    /\ reparsed = Idle
    /\ repl = Idle

CallApply_step(parsed, applied) ==
    /\ ast' = parsed
    /\ world' = applied.w
    /\ resultObj' = applied.val

CallApply_function(parsed) ==
    Eval(parsed.node.Statements[1].Expression, CallCaptured, world)

CallApply_apply(parsed, function) ==
    CallApply_step(parsed, applyFunction(function.val, operands.args,
                                         function.w))

CallApply_parsed(parsed) ==
    CallApply_apply(parsed, CallApply_function(parsed))

\* the function literal is evaluated in the captured scope, and
\* applyFunction(fn, args) is called
CallApply ==
    /\ pc = "operands"
    /\ CallApply_parsed(ParseSource(operands.text))
    /\ pc' = "done"
    /\ UNCHANGED <<lexer, tokens, cmdline, nextStmt, exitCode, operands,
                   printed, reparsed, repl>>

CallNext == CallApply

CallSpec == CallInit /\ [][CallNext]_vars

-----------------------------------------------------------------------------
(* ScopeSpec: Set and Get on a chain of three scopes                        *)

ScopeNames == {<<"a">>, <<"b">>}
ScopeValues == {Integer(1), Integer(2)}

\* a scope, a scope enclosed by it, and a scope enclosed by that one
ScopeWorld ==
    LET outermost == NewEnvironment(NewWorld(FALSE, FALSE))
        middle == NewEnclosedEnvironment(outermost.env, outermost.w)
    IN NewEnclosedEnvironment(middle.env, middle.w).w

ScopeInit ==
    /\ world = ScopeWorld
    /\ operands = [op |-> "none"]
    /\ pc = "scope"
    /\ resultObj = GoNil
    /\ cmdline = Idle
    /\ ast = Idle
    /\ nextStmt = 1
    /\ exitCode = -1
    /\ lexer = Idle
    /\ tokens = <<>>
    /\ printed = <<>>
    /\ reparsed = Idle
    /\ repl = Idle

\* e.Set(name, val)
ScopeSet ==
    /\ pc = "scope"
    /\ \E e \in 1..Len(world.envs), name \in ScopeNames, val \in ScopeValues :
           /\ world' = Set(world, e, name, val)
           /\ operands' = [op |-> "set", env |-> e, name |-> name,
                           val |-> val, before |-> world]
    /\ UNCHANGED <<lexer, tokens, pc, cmdline, ast, nextStmt, resultObj,
                   exitCode, printed, reparsed, repl>>

\* e.Get(name)
ScopeGet ==
    /\ pc = "scope"
    /\ \E e \in 1..Len(world.envs), name \in ScopeNames :
           operands' = [op |-> "get", env |-> e, name |-> name,
                        found |-> Get(world, e, name), before |-> world]
    /\ UNCHANGED <<lexer, tokens, pc, cmdline, world, ast, nextStmt,
                   resultObj, exitCode, printed, reparsed, repl>>

ScopeNext == ScopeSet \/ ScopeGet

ScopeSpec == ScopeInit /\ [][ScopeNext]_vars

-----------------------------------------------------------------------------
(* BlockSpec: the run of a program whose statements, or the statements of a *)
(* block of it, show a value, return or fail                                *)

\* the longest list of statements
MaxBody == 3

BlockKinds == {"show", "return", "error"}
BlockContexts == {"program", "si", "mientras", "para", "fun"}

BlockDigit(j) == <<"1", "2", "3", "4", "5", "6", "7", "8", "9">>[j]

\* the j-th statement: mostrar(j), devolver j, or j / 0
BlockStatementText(kind, j) ==
    CASE kind = "show" ->
             <<"m", "o", "s", "t", "r", "a", "r", "(", BlockDigit(j), ")">>
      [] kind = "return" ->
             <<"d", "e", "v", "o", "l", "v", "e", "r", " ", BlockDigit(j)>>
      [] kind = "error" -> <<BlockDigit(j), " ", "/", " ", "0">>

\* the statements from the j-th on, each followed by a space
RECURSIVE BlockBodyText(_, _)
BlockBodyText(kinds, j) ==
    IF j > Len(kinds) THEN <<>>
    ELSE BlockStatementText(kinds[j], j) \o <<" ">> \o BlockBodyText(kinds, j + 1)

BlockAfter == <<"}", " ", "m", "o", "s", "t", "r", "a", "r", "(", "9", ")">>

\* the statements as the program itself, or as the block of a si, of a
\* mientras that runs once, of a para that runs once or of a function that is
\* called, with mostrar(9) after it
BlockText(context, kinds) ==
    LET body == BlockBodyText(kinds, 1)
    IN CASE context = "program" -> body
         [] context = "si" ->
                <<"s", "i", " ", "(", "v", "e", "r", "d", "a", "d", ")", " ",
                  "{", " ">> \o body \o BlockAfter
         [] context = "mientras" ->
                <<"g", "u", "a", "r", "d", "a", " ", "c", " ", "=", " ", "1",
                  " ", "m", "i", "e", "n", "t", "r", "a", "s", " ", "(", "c",
                  ")", " ", "{", " ">>
                \o body
                \o <<"g", "u", "a", "r", "d", "a", " ", "c", " ", "=", " ",
                     "0", " ">>
                \o BlockAfter
         [] context = "para" ->
                <<"p", "a", "r", "a", " ", "(", "g", "u", "a", "r", "d", "a",
                  " ", "i", " ", "=", " ", "0", ";", " ", "i", " ", "<", " ",
                  "1", ";", " ", "g", "u", "a", "r", "d", "a", " ", "i", " ",
                  "=", " ", "1", ")", " ", "{", " ">>
                \o body \o BlockAfter
         [] context = "fun" ->
                <<"f", "u", "n", "(", ")", " ", "{", " ">> \o body
                \o <<"}", "(", ")", " ", "m", "o", "s", "t", "r", "a", "r",
                     "(", "9", ")">>

BlockInit ==
    /\ operands \in [context : BlockContexts,
                     kinds : UNION {[1..n -> BlockKinds] : n \in 1..MaxBody}]
    /\ cmdline = [argv |-> <<FileGaby>>, readable |-> TRUE,
                  source |-> BlockText(operands.context, operands.kinds)]
    /\ world = NewWorld(FALSE, FALSE)
    /\ pc = "main"
    /\ ast = Idle
    /\ nextStmt = 1
    /\ resultObj = GoNil
    /\ exitCode = -1
    /\ lexer = Idle
    /\ tokens = <<>>
    /\ printed = <<>>
    /\ reparsed = Idle
    /\ repl = Idle

BlockSpec == BlockInit /\ [][Next]_vars

-----------------------------------------------------------------------------
(* ReplSpec: startRepl on an input stream that ends                         *)

\* the most lines of an input stream, and the most prompts ">> " explored
MaxLines == 2
MaxPrompts == 4

Salir == <<"s", "a", "l", "i", "r", "(", ")">>
Ayuda == <<"a", "y", "u", "d", "a", "(", ")">>

ReplLines == {<<"1">>, <<"x">>, <<"{">>, <<"}">>, Salir, Ayuda}

\* the lines one after the other, each ended by a line feed
RECURSIVE ReplStream(_)
ReplStream(lines) ==
    IF lines = <<>> THEN <<>>
    ELSE Head(lines) \o <<"\n">> \o ReplStream(Tail(lines))

\* the streams of at most MaxLines lines, the last line with its line feed
\* or without it
ReplStreams ==
    LET texts == UNION {[1..n -> ReplLines] : n \in 0..MaxLines}
    IN {ReplStream(lines) : lines \in texts}
       \cup {SubSeq(ReplStream(lines), 1, Len(ReplStream(lines)) - 1) :
                 lines \in texts \ {<<>>}}

\* Scan's loop over the bytes read: [line, more, reader, bracketOpen].  At the
\* end of the stream Read returns io.EOF, and Scan returns the bytes of the
\* line so far, more = false and a nil error
RECURSIVE Scan_loop(_, _, _)
Scan_loop(reader, bracketOpen, line) ==
    IF reader = <<>>
    THEN [line |-> line, more |-> FALSE, reader |-> reader,
          bracketOpen |-> bracketOpen]
    ELSE LET c == Head(reader)
         IN IF c = "\n"
            THEN [line |-> line, more |-> bracketOpen > 0,
                  reader |-> Tail(reader), bracketOpen |-> bracketOpen]
            ELSE Scan_loop(Tail(reader),
                           IF c = "{" THEN bracketOpen + 1
                           ELSE IF c = "}" /\ bracketOpen > 0
                           THEN bracketOpen - 1
                           ELSE bracketOpen,
                           Append(line, c))

\* ls.Scan()
Scan(ls) == Scan_loop(ls.reader, ls.bracketOpen, <<>>)

\* evaluateInput(input, env): R(object, world); the parser's errors are
\* printed and nil is returned, else the program is evaluated
evaluateInput_parsed(parsed, env, w) ==
    IF parsed.p.abort # "" THEN R(GoNil, [w EXCEPT !.halt = parsed.p.abort,
                                                  !.code = 2])
    ELSE IF Len(parsed.p.errors) # 0
    THEN R(GoNil, [w EXCEPT !.out = @ \o printParserErrors(parsed.p.errors)])
    ELSE evalProgram(parsed.node, env, w)

evaluateInput(input, env, w) ==
    evaluateInput_parsed(ParseSource(input), env, w)

ReplInit ==
    /\ cmdline \in {[argv |-> <<>>, stdin |-> s] : s \in ReplStreams}
    /\ world = LET e == NewEnvironment(NewWorld(FALSE, FALSE))
               IN LoadStdlib(e.w, e.env)
    /\ repl = [scanner |-> [reader |-> cmdline.stdin, bracketOpen |-> 0],
               line |-> <<>>, more |-> FALSE, prompts |-> 0]
    /\ pc = "prompt"
    /\ ast = Idle
    /\ nextStmt = 1
    /\ resultObj = GoNil
    /\ exitCode = -1
    /\ lexer = Idle
    /\ tokens = <<>>
    /\ operands = Idle
    /\ printed = <<>>
    /\ reparsed = Idle

\* the head of startRepl's loop: the prompt, and scanner.Scan()
ReplRead_scanned(scanned) ==
    /\ repl' = [scanner |-> [reader |-> scanned.reader,
                             bracketOpen |-> scanned.bracketOpen],
                line |-> scanned.line, more |-> scanned.more,
                prompts |-> repl.prompts + 1]
    /\ pc' = IF scanned.more THEN "more" ELSE "command"

ReplRead ==
    /\ pc = "prompt"
    /\ repl.prompts < MaxPrompts
    /\ world' = [world EXCEPT !.out = Append(@, ">> ")]
    /\ ReplRead_scanned(Scan(repl.scanner))
    /\ UNCHANGED <<lexer, tokens, cmdline, ast, nextStmt, resultObj, exitCode,
                   operands, printed, reparsed>>

\* a round of the loop `for more`: the prompt "..", scanner.Scan(), and the
\* line read joined to the lines before it
ReplReadMore_scanned(scanned) ==
    /\ repl' = [scanner |-> [reader |-> scanned.reader,
                             bracketOpen |-> scanned.bracketOpen],
                line |-> repl.line \o <<"\n">> \o scanned.line,
                more |-> scanned.more, prompts |-> repl.prompts]
    /\ pc' = IF scanned.more THEN "more" ELSE "command"

ReplReadMore ==
    /\ pc = "more"
    /\ world' = [world EXCEPT !.out = Append(@, ".. ")]
    /\ ReplReadMore_scanned(Scan(repl.scanner))
    /\ UNCHANGED <<lexer, tokens, cmdline, ast, nextStmt, resultObj, exitCode,
                   operands, printed, reparsed>>

\* the commands of the REPL: salir() returns, ayuda() prints the help
ReplCommand ==
    /\ pc = "command"
    /\ repl.line \in {Salir, Ayuda}
    /\ IF repl.line = Salir
       THEN /\ world' = [world EXCEPT !.out = Append(@, "Hasta luego!")]
            /\ pc' = "returned"
       ELSE /\ world' = [world EXCEPT !.out = Append(@, "Comandos disponibles:")]
            /\ pc' = "prompt"
    /\ UNCHANGED <<lexer, tokens, cmdline, ast, nextStmt, resultObj, exitCode,
                   operands, printed, reparsed, repl>>

\* the rest of the loop's body: evaluateInput(line, env), and the result
\* printed unless it is nil or Null
ReplEvaluate_evaluated(evaluated) ==
    /\ resultObj' = evaluated.val
    /\ IF evaluated.w.halt = "hang"
       THEN /\ world' = evaluated.w
            /\ pc' = "hung"
            /\ UNCHANGED exitCode
       ELSE IF evaluated.w.halt # ""
       THEN /\ world' = evaluated.w
            /\ pc' = "exited"
            /\ exitCode' = evaluated.w.code
       ELSE IF evaluated.val.Type \in {"nil", NULL_OBJ}
       THEN /\ world' = evaluated.w
            /\ pc' = "prompt"
            /\ UNCHANGED exitCode
       ELSE /\ world' = [evaluated.w EXCEPT
                            !.out = Append(@, Inspect(evaluated.val, evaluated.w))]
            /\ pc' = "prompt"
            /\ UNCHANGED exitCode

ReplEvaluate ==
    /\ pc = "command"
    /\ repl.line \notin {Salir, Ayuda}
    /\ ReplEvaluate_evaluated(evaluateInput(repl.line, 1, world))
    /\ UNCHANGED <<lexer, tokens, cmdline, ast, nextStmt, operands, printed,
                   reparsed, repl>>

ReplNext == ReplRead \/ ReplReadMore \/ ReplCommand \/ ReplEvaluate

ReplSpec == ReplInit /\ [][ReplNext]_vars

-----------------------------------------------------------------------------
(* LexSpec: the lexer run on one input, one NextToken call per step *)

\* the operator and punctuation lexemes (token.go, the constant block)
OperatorLexemes ==
    {
       <<"=">>,
       <<"+">>,
       <<"-">>,
       <<"!">>,
       <<"*">>,
       <<"/">>,
       <<"%">>,
       <<"^">>,
       <<"<">>,
       <<">">>,
       <<"=", "=">>,
       <<"!", "=">>,
       <<"+", "=">>,
       <<"-", "=">>,
       <<"*", "=">>,
       <<"/", "=">>,
       <<"%", "=">>,
       <<"^", "=">>,
       <<":", "=">>,
       <<",">>,
       <<";">>,
       <<":">>,
       <<".">>,
       <<"(">>,
       <<")">>,
       <<"{">>,
       <<"}">>,
       <<"[">>,
       <<"]">>
    }

KeywordWords == {k.word : k \in keywords}

\* further inputs: identifiers, numbers, strings, comments, several lines, a
\* zero byte inside the text
OtherInputs ==
    {
       <<"x">>,
       <<"f", "o", "o", "_", "1">>,
       <<"_", "a">>,
       <<"1", "2">>,
       <<"1", ".", "5">>,
       <<"1", ".", "2", ".", "3">>,
       <<"\"", "a", "b", "\"">>,
       <<"'", "a", "'">>,
       <<"\"", "a">>,
       <<"/", "/", " ", "c", "\n", "x">>,
       <<"/", "*", " ", "c", " ", "*", "/", " ", "x">>,
       <<"/", "*", " ", "c">>,
       <<"a", "\n", "b">>,
       <<"x", " ", ":", "=", " ", "1">>,
       <<"a", " ", "=", "=", " ", "b">>,
       <<"@">>,
       <<"s", "i", " ", "(", "x", ")", " ", "{", " ", "y", " ", "}">>,
       <<"\"", "a", "\\", "\"", "b", "\"">>,
       <<" ", "\n", " ", "x">>,
       <<"1", " ", "+", "\n", " ", "2">>,
       <<"a", NUL, "b">>,
       <<"/", "*", "*">>
    }

LexInputs == KeywordWords \cup OperatorLexemes \cup OtherInputs

\* the tokens returned so far that are end-of-input
EOFCount(toks) == Cardinality({i \in DOMAIN toks : toks[i].Type = EOF})

LexInit ==
    /\ \E input \in LexInputs : lexer = LexerNew(input)
    /\ tokens = <<>>
    /\ pc = Idle
    /\ cmdline = Idle
    /\ ast = Idle
    /\ nextStmt = 1
    /\ world = NewWorld(FALSE, FALSE)
    /\ resultObj = GoNil
    /\ exitCode = -1
    /\ operands = Idle
    /\ printed = <<>>
    /\ reparsed = Idle
    /\ repl = Idle

LexNextToken ==
    /\ EOFCount(tokens) <= MaxExtraCalls
    /\ LET r == NextToken(lexer)
       IN /\ lexer' = r.l
          /\ tokens' = Append(tokens, r.tok)
    /\ UNCHANGED <<pc, cmdline, ast, nextStmt, world, resultObj, exitCode,
                   operands, printed, reparsed, repl>>

LexNext == LexNextToken

LexSpec == LexInit /\ [][LexNext]_vars

RECURSIVE PullTokens(_, _)
\* the tokens of n calls of Pull
PullTokens(l, n) ==
    IF n = 0 THEN <<>> ELSE <<Pull(l).tok>> \o PullTokens(Pull(l).l, n - 1)

\* On a text without a zero byte the tokens the parser pulls are those
\* NextToken returns call by call, the calls after the first EOF included.
PullAgreesWithNextToken ==
    NoZeroByte(lexer.input)
    => tokens = PullTokens(Lexed(LexerNew(lexer.input)), Len(tokens))

-----------------------------------------------------------------------------
(* Claims about the lexer *)

KeywordType(word) == (CHOOSE k \in keywords : k.word = word).type

\* C5: lexing a keyword K of the keyword table alone yields exactly one token
\* of K's kind with literal K and then end-of-input; lexing an operator or
\* punctuation lexeme alone (the two-character forms included) yields exactly
\* one token of that operator's kind and then end-of-input.
C5_LoneLexemeTokens ==
    LET input == lexer.input
    IN /\ (input \in KeywordWords /\ Len(tokens) >= 1) =>
              /\ tokens[1].Type = KeywordType(input)
              /\ tokens[1].Literal = input
       /\ (input \in OperatorLexemes /\ Len(tokens) >= 1) =>
              /\ tokens[1].Type = Concat(input)
              /\ tokens[1].Literal = input
       /\ (input \in KeywordWords \cup OperatorLexemes /\ Len(tokens) >= 2) =>
              tokens[2].Type = EOF

\* the keyword no_es and the operator := were each lexed to their end
C5_Witness ==
    /\ lexer.input \in {<<"n", "o", "_", "e", "s">>, <<":", "=">>}
    /\ Len(tokens) = 2
    /\ tokens[1].Type \in {"ISNOT", ":="}
    /\ tokens[2].Type = EOF

-----------------------------------------------------------------------------
(* Claims about the evaluator and the driver *)

\* the expression e is an infix "o" whose left operand is the literal verdad,
\* or an infix "y" whose left operand is the literal falso
C1_Decided(e) ==
    /\ e.kind = "InfixExpression"
    /\ e.Left.kind = "BooleanLiteral"
    /\ \/ e.Operator = "o" /\ e.Left.Value
       \/ e.Operator = "y" /\ ~e.Left.Value

\* C1: an infix "o" whose left operand is truthy, or an infix "y" whose left
\* operand is falsy, never evaluates its right operand: a program that is one
\* such expression yields the left operand's value, and neither an Error nor
\* an output of the right operand occurs (verdad o (1 / 0) yields verdad).
C1_ShortCircuit ==
    (/\ pc = "executeFile"
     /\ Len(ast.p.errors) = 0
     /\ Len(ast.node.Statements) = 1
     /\ ast.node.Statements[1].kind = "ExpressionStatement"
     /\ C1_Decided(ast.node.Statements[1].Expression))
    => /\ resultObj.Type = BOOLEAN_OBJ
       /\ resultObj.Value = ast.node.Statements[1].Expression.Left.Value
       /\ ~world.raised
       /\ world.out = <<>>

\* the sources in which the body of a method refers to esto and the method is
\* called on an instance
EstoSources == {Src_EstoRead, Src_EstoReturn, Src_EstoOpen}

\* C2: source text that calls obj.m() and refers to esto inside the body of m
\* goes through lexer, parser and evaluator: it parses without errors, esto
\* resolves to obj during the call, and after the call esto is not bound in the
\* caller's scope.
C2_EstoInMethod ==
    (pc = "executeFile" /\ cmdline.source \in EstoSources)
    => /\ ast.p.abort = ""
       /\ Len(ast.p.errors) = 0
       /\ IF cmdline.source = Src_EstoReturn
          THEN /\ resultObj.Type = INSTANCE_OBJ
               /\ Get(world, 1, <<"c">>).ok
               /\ SamePointer(resultObj, Get(world, 1, <<"c">>).obj, world)
          ELSE resultObj.Type = INTEGER_OBJ /\ resultObj.Value = 5
       /\ ~Get(world, 1, <<"e", "s", "t", "o">>).ok

\* C3: a Function value holds a reference to the scope its literal was
\* evaluated in, not a copy: the function bound to f keeps the index of the
\* global scope, and a call made after a name of that scope was bound again
\* (or bound for the first time) reads the value the name has at the call.
C3_ClosureSeesRebinding ==
    /\ (pc \in {"evalProgram", "executeFile"} /\ cmdline.source \in
            {Src_Rebound, Src_BoundLater, Src_CalledTwice}
        /\ Get(world, 1, <<"f">>).ok)
       => /\ Get(world, 1, <<"f">>).obj.Type = FUNCTION_OBJ
          /\ Get(world, 1, <<"f">>).obj.Env = 1
    /\ (pc = "executeFile" /\ cmdline.source = Src_Rebound)
       => resultObj.Type = INTEGER_OBJ /\ resultObj.Value = 2
    /\ (pc = "executeFile" /\ cmdline.source = Src_BoundLater)
       => resultObj.Type = INTEGER_OBJ /\ resultObj.Value = 5
    /\ (pc = "executeFile" /\ cmdline.source = Src_CalledTwice)
       => world.out = <<"1", "2">>

\* x was 1 when f was created and 2 when f was called: the call yielded 2
C3_Witness ==
    /\ pc = "executeFile"
    /\ cmdline.source = Src_Rebound
    /\ Get(world, 1, <<"x">>).obj.Type = INTEGER_OBJ
    /\ Get(world, 1, <<"x">>).obj.Value = 2
    /\ resultObj.Type = INTEGER_OBJ
    /\ resultObj.Value = 2

\* C4: for all machine integers a and b, a + b, a - b and a * b yield the
\* Integer that lies in the signed range and is congruent to the exact result
\* modulo 2^IntBits, and a / 0 and a % 0 yield an Error value with the messages
\* "division por cero" and "modulo por cero".
C4_IntegerArithmetic ==
    pc = "done" =>
        LET a == operands.left
            b == operands.right
            op == operands.operator
            exact == CASE op = "+" -> a + b
                       [] op = "-" -> a - b
                       [] OTHER -> a * b
        IN /\ op \in {"+", "-", "*"} =>
                  /\ resultObj.Type = INTEGER_OBJ
                  /\ resultObj.Value \in MinInt..MaxInt
                  /\ (resultObj.Value - exact) % (2^IntBits) = 0
           /\ (op = "/" /\ b = 0) =>
                  /\ resultObj.Type = ERROR_OBJ
                  /\ resultObj.Message = "division por cero"
           /\ (op = "%" /\ b = 0) =>
                  /\ resultObj.Type = ERROR_OBJ
                  /\ resultObj.Message = "modulo por cero"

\* the largest integer plus one wrapped around to the smallest
C4_Witness ==
    /\ pc = "done"
    /\ operands.operator = "+"
    /\ operands.left = MaxInt
    /\ operands.right = 1
    /\ resultObj.Type = INTEGER_OBJ
    /\ resultObj.Value = MinInt

\* C6: for a program that parses with no errors, printing its AST with
\* String() and parsing the printed text again yields no parser errors and an
\* AST structurally equal to the first one.
C6_PrintParseRoundTrip ==
    pc = "done" =>
        /\ reparsed.p.abort = ""
        /\ Len(reparsed.p.errors) = 0
        /\ SameShape(ast.node, reparsed.node)

\* C7: in file mode a run that neither calls salir nor panics ends with exit
\* code 1 when the file has the wrong extension, is unreadable, produces a
\* parser error or evaluates to an Error, and with exit code 0 otherwise.
C7_ExitCode ==
    (pc = "exited" /\ Len(cmdline.argv) = 1 /\ world.halt = "")
    => IF ~HasSuffix(cmdline.argv[1], GABY_EXTENSION) \/ ~cmdline.readable
       THEN exitCode = 1
       ELSE ast.p.abort = "" =>
                exitCode = IF Len(ast.p.errors) > 0 \/ resultObj.Type = ERROR_OBJ
                           THEN 1 ELSE 0

\* the object v is a ReturnValue, or an array or a hash that holds one
C8_Keeps(v) ==
    \/ v.Type = RETURN_VALUE_OBJ
    \/ /\ v.Type = ARRAY_OBJ
       /\ \E i \in 1..Len(v.Elements) : v.Elements[i].Type = RETURN_VALUE_OBJ
    \/ /\ v.Type = HASH_OBJ
       /\ \E i \in 1..Len(v.Pairs) : v.Pairs[i].Value.Type = RETURN_VALUE_OBJ

\* C8: in every state reached by evaluating a program no ReturnValue is bound
\* to a name in any scope, nor is one an element of an array or a value of a
\* hash that a scope binds or that the program yields.
C8_NoReturnValueKept ==
    /\ \A e \in 1..Len(world.envs) :
           \A n \in DOMAIN world.envs[e].store : ~C8_Keeps(world.envs[e].store[n])
    /\ ~(resultObj.Type \in {ARRAY_OBJ, HASH_OBJ} /\ C8_Keeps(resultObj))

\* the map m of names to objects holds an Error
C9_HoldsError(m) == \E n \in DOMAIN m : m[n].Type = ERROR_OBJ

\* C9: in every state reached by evaluating a program no scope binds a name
\* to an Error value, and neither the properties of a class a scope binds nor
\* the properties of an instance hold one.
C9_NoErrorBound ==
    /\ \A e \in 1..Len(world.envs) :
           /\ ~C9_HoldsError(world.envs[e].store)
           /\ \A n \in DOMAIN world.envs[e].store :
                  world.envs[e].store[n].Type = CLASS_OBJ =>
                      ~C9_HoldsError(world.envs[e].store[n].Properties)
    /\ \A i \in 1..Len(world.insts) : ~C9_HoldsError(world.insts[i].Properties)

\* a declaration whose value is an Error has been evaluated: the run yielded
\* the Error and the declared name is not bound
C9_Witness ==
    /\ pc = "executeFile"
    /\ cmdline.source = Src_LetError
    /\ resultObj.Type = ERROR_OBJ
    /\ ~Get(world, 1, <<"x">>).ok

\* C10: once the evaluation of a sub-step has yielded an Error, no further
\* sub-step is evaluated and every enclosing construct yields that Error: a
\* program in which an Eval call returned an Error yields an Error, and no Eval
\* call began after that one returned.
C10_ErrorStopsEvaluation ==
    (pc = "executeFile" /\ Len(ast.p.errors) = 0 /\ world.raised)
    => /\ resultObj.Type = ERROR_OBJ
       /\ ~world.ranAfter

-----------------------------------------------------------------------------
(* Claims about truthiness, instances and the lexer's positions *)

\* the objects the language takes for false: Null, Boolean false, Integer 0,
\* Float 0 and the empty String
C11_Falsy(v) ==
    \/ v.Type = NULL_OBJ
    \/ v.Type = BOOLEAN_OBJ /\ ~v.Value
    \/ v.Type \in {INTEGER_OBJ, FLOAT_OBJ} /\ v.Value = 0
    \/ v.Type = STRING_OBJ /\ v.Value = <<>>

\* C11: for every runtime value, produced by a literal, an operator or a
\* built-in function, the truthiness used by si, mientras, para, y and o is
\* false exactly for Null, Boolean false, Integer 0, Float 0 and the empty
\* String, and true for every other value.
C11_Truthiness ==
    pc = "done" => (operands.truthy <=> ~C11_Falsy(resultObj))

\* the environment a is e itself or encloses it
RECURSIVE Encloses(_, _, _)
Encloses(w, a, e) ==
    IF e = 0 THEN FALSE
    ELSE IF e = a THEN TRUE
    ELSE Encloses(w, a, w.envs[e].outer)

RECURSIVE LexerBefore(_, _)
LexerBefore(l, n) ==
    IF n = 1 THEN l ELSE LexerBefore(NextToken(l).l, n - 1)

\* the offset of the first character of the token the next call returns:
\* white space and comments are passed over
RECURSIVE TokenStart(_)
TokenStart(l) ==
    IF l.ch \in {" ", "\t", "\n", "\r"} THEN TokenStart(readChar(l))
    ELSE IF l.ch = "/" /\ peekChar(l) = "/" THEN TokenStart(skipLineComment(l))
    ELSE IF l.ch = "/" /\ peekChar(l) = "*" THEN TokenStart(skipBlockComment(l))
    ELSE l.position

\* the line feeds of the input before the offset
LineFeedsBefore(input, offset) ==
    {k \in 1..Len(input) : k <= offset /\ input[k] = "\n"}

LastLineFeed(input, offset) ==
    IF LineFeedsBefore(input, offset) = {} THEN 0
    ELSE CHOOSE k \in LineFeedsBefore(input, offset) :
             \A j \in LineFeedsBefore(input, offset) : j <= k

\* C13: every token NextToken returns, of every kind, carries the line and
\* the column of its first character: its line is 1 plus the number of line
\* feeds before that character and is never 0, its column counts from 1
\* after the last line feed.
C13_TokenPosition ==
    \A i \in DOMAIN tokens :
        LET start == TokenStart(LexerBefore(LexerNew(lexer.input), i))
        IN /\ tokens[i].Line # 0
           /\ tokens[i].Line = 1 + Cardinality(LineFeedsBefore(lexer.input, start))
           /\ tokens[i].Column = start + 1 - LastLineFeed(lexer.input, start)

\* C14: for every token sequence ParseProgram returns a Program and does not
\* abort: whatever the file's text, the call made by evaluateInput returns
\* (no panic, no loop without end), a malformed method or property in a class
\* body included; the mismatch is found in the parser's error list.
C14_ParseProgramReturns ==
    (/\ pc \notin {"main", "evaluateInput"}
     /\ Len(cmdline.argv) = 1
     /\ HasSuffix(cmdline.argv[1], GABY_EXTENSION)
     /\ cmdline.readable)
    => /\ ast.p.abort = ""
       /\ ast.node.kind = "Program"

\* the calls of NextToken made so far have returned an end-of-input token
\* within the first Len(input) + 1 of them, and every call that returned
\* another token has moved the lexer forward by at least one byte
C15_Ends ==
    /\ Len(tokens) >= Len(lexer.input) + 1
       => \E i \in 1..(Len(lexer.input) + 1) : tokens[i].Type = EOF
    /\ \A i \in DOMAIN tokens :
           tokens[i].Type # EOF
           => LexerBefore(LexerNew(lexer.input), i).position
                  < LexerBefore(LexerNew(lexer.input), i + 1).position

\* after an end-of-input token every later token is end-of-input
C15_Sticks ==
    \A i \in DOMAIN tokens, j \in DOMAIN tokens :
        (i < j /\ tokens[i].Type = EOF) => tokens[j].Type = EOF

\* a string or a block comment that is not closed ends at the end of the
\* input: the string is a STRING token of the text after the quote, the
\* comment yields no token, and end-of-input follows
C15_Unterminated ==
    /\ (lexer.input = <<"\"", "a">> /\ Len(tokens) >= 2)
       => /\ tokens[1].Type = STRING_TOK
          /\ tokens[1].Literal = <<"a">>
          /\ tokens[2].Type = EOF
    /\ (lexer.input \in {<<"/", "*", " ", "c">>, <<"/", "*", "*">>}
        /\ Len(tokens) >= 1)
       => tokens[1].Type = EOF

-----------------------------------------------------------------------------
(* Claims about declarations, assignment, nuevo, para and named functions *)

\* C16: the statement `name := expr` parses without error to the same
\* declaration node (same name, same value expression) as
\* `guarda name = expr`, and evaluating it binds name in the current scope.
C16_WalrusDeclares ==
    (pc = "executeFile" /\ cmdline.source = Src_Walrus)
    => /\ Len(ast.p.errors) = 0
       /\ SameShape(ast.node, ParseSource(Src_Declare).node)
       /\ Get(world, 1, <<"x">>) = [obj |-> Integer(5), ok |-> TRUE]

\* C17: an assignment `x = expr` parses without error and, when evaluated,
\* writes the value of expr to x in the innermost scope as `guarda x = expr`
\* does: at the top level x holds the new value afterwards, and inside a
\* function the assignment shadows the outer x, whose binding stays as it was.
C17_AssignmentWrites ==
    (pc = "executeFile" /\ cmdline.source \in {Src_Assign, Src_AssignNested})
    => /\ Len(ast.p.errors) = 0
       /\ resultObj.Type = INTEGER_OBJ
       /\ resultObj.Value = IF cmdline.source = Src_Assign THEN 5 ELSE 1
       /\ Get(world, 1, <<"x">>) = [obj |-> resultObj, ok |-> TRUE]
       /\ cmdline.source = Src_AssignNested
          => \E e \in 2..Len(world.envs) :
                 /\ <<"x">> \in DOMAIN world.envs[e].store
                 /\ world.envs[e].store[<<"x">>] = Integer(5)

\* C18: `nuevo C(a1, ..., an)` parses to a NewExpression with the class C and
\* the arguments a1..an, and evaluating it yields an Instance, not an Error,
\* the arguments bound by position to the parameters of crear; `nuevo C`
\* without an argument list yields an Instance too.
C18_NuevoWithArguments ==
    (pc = "executeFile" /\ cmdline.source \in {Src_NewArgs, Src_NewPlain})
    => /\ Len(ast.p.errors) = 0
       /\ resultObj.Type = INSTANCE_OBJ
       /\ cmdline.source = Src_NewArgs
          => LET new == ast.node.Statements[2].Expression
             IN /\ new.kind = "NewExpression"
                /\ new.Class.kind = "Identifier"
                /\ new.Class.Value = <<"C">>
                /\ Len(new.Arguments) = 1
                /\ new.Arguments[1].kind = "IntegerLiteral"
                /\ new.Arguments[1].Value = 7
                /\ \E e \in 1..Len(world.envs) :
                       /\ <<"a">> \in DOMAIN world.envs[e].store
                       /\ world.envs[e].store[<<"a">>] = Integer(7)

\* C19: in `para (init; condition; update) { body }` each of the three
\* sections may be left out: all eight combinations parse without an error
\* into a For node that holds the sections written and has none for the
\* sections left out.
C19_ForSections ==
    \A init \in BOOLEAN, condition \in BOOLEAN, update \in BOOLEAN :
        (pc # "parse" /\ cmdline.source = ForText(init, condition, update))
        => /\ ast.p.abort = ""
           /\ Len(ast.p.errors) = 0
           /\ Len(ast.node.Statements) = 1
           /\ ast.node.Statements[1].Expression.kind = "ForExpression"
           /\ (ast.node.Statements[1].Expression.Init.kind # "nil") <=> init
           /\ (ast.node.Statements[1].Expression.Condition.kind # "nil")
                  <=> condition
           /\ (ast.node.Statements[1].Expression.Update.kind # "nil") <=> update

\* C20: after the statement `fun f(params) { body }` has been evaluated, a
\* later call `f(args)` in the same scope invokes that function, and does
\* not yield the Error `identificador no encontrado: f`.
C20_NamedFunctionCallable ==
    (pc = "executeFile" /\ cmdline.source = Src_NamedFunction)
    => /\ Len(ast.p.errors) = 0
       /\ resultObj.Type # ERROR_OBJ
       /\ resultObj = Integer(3)
       /\ Get(world, 1, <<"f">>).ok

-----------------------------------------------------------------------------
(* Claims about classes, logical operators, calls, scopes and blocks *)

\* C21: a class literal whose body is a sequence of declarations and method
\* literals, closed by `}`, parses with no parser error into one class
\* literal that holds every declaration in its properties and every method
\* in its methods, in source order; the token after the class's closing
\* brace starts the next statement; a member that is neither is skipped
\* without a parser error.
C21_ClassBody ==
    (pc = "executeFile"
     /\ cmdline.source \in {Src_ClassMembers, Src_ClassSkipped})
    => /\ ast.p.abort = ""
       /\ Len(ast.p.errors) = 0
       /\ Len(ast.node.Statements) = 2
       /\ ast.node.Statements[1].Expression.kind = "ClassLiteral"
       /\ ast.node.Statements[2].Expression.kind = "IntegerLiteral"
       /\ ast.node.Statements[2].Expression.Value = 7
       /\ LET class == ast.node.Statements[1].Expression
          IN IF cmdline.source = Src_ClassMembers
             THEN /\ Len(class.Properties) = 1
                  /\ class.Properties[1].Name.Value = <<"v">>
                  /\ Len(class.Methods) = 1
                  /\ class.Methods[1].Name = <<"m">>
             ELSE /\ Len(class.Properties) = 2
                  /\ class.Properties[1].Name.Value = <<"v">>
                  /\ class.Properties[2].Name.Value = <<"w">>
                  /\ Len(class.Methods) = 0

\* C22: for all operands a and b of any runtime types, two Integers, two
\* Floats or two Strings included, `a y b` evaluates to a when a is falsy and
\* to b otherwise, and `a o b` evaluates to a when a is truthy and to b
\* otherwise: the result is one of the operands itself, never a coerced
\* Boolean and never an Error.
C22_LogicalOperands ==
    (pc = "done" /\ operands.operator \in {"y", "o"})
    => LET a == operands.left
           b == operands.right
           chosen == IF (operands.operator = "y") <=> C11_Falsy(a)
                     THEN a ELSE b
       IN /\ resultObj.Type # ERROR_OBJ
          /\ resultObj.Type = chosen.Type
          /\ resultObj = chosen

\* C29: the prefix operator `!` agrees with truthiness: for every runtime
\* value v, `!v` evaluates to verdad exactly when v is falsy under the rule
\* used by si and mientras (Null, false, Integer 0, Float 0, empty String),
\* and to falso otherwise.
C29_BangAgreesWithTruthiness ==
    (pc = "done" /\ operands.operator = "!")
    => /\ resultObj.Type = BOOLEAN_OBJ
       /\ resultObj.Value <=> C11_Falsy(operands.right)

\* C23: a call of a Function of n parameters on k arguments runs the body in
\* one fresh scope whose outer scope is the scope the function captured; the
\* fresh scope binds the parameters and nothing else, the i-th to the i-th
\* argument while there is one and to Null after that, and the arguments
\* after the n-th are bound to no name; the captured scope, the caller's
\* scope and the global scope are as they were before the call
C23_CallScope ==
    (pc = "done" /\ operands.text \in CallFunctions)
    => LET before == CallWorld(operands.captured, operands.caller)
           parameters == ast.node.Statements[1].Expression.Parameters
           args == operands.args
           scope == Len(before.envs) + 1
           bound(i) == IF i <= Len(args) THEN args[i] ELSE NULL
       IN /\ Len(world.envs) = scope
          /\ world.envs[scope].outer = CallCaptured
          /\ DOMAIN world.envs[scope].store
                 = {parameters[i].Value : i \in 1..Len(parameters)}
          /\ \A i \in 1..Len(parameters) :
                 world.envs[scope].store[parameters[i].Value] = bound(i)
          /\ \A e \in 1..Len(before.envs) : world.envs[e] = before.envs[e]
          /\ resultObj.Type = ARRAY_OBJ
          /\ resultObj.Elements = [i \in 1..Len(parameters) |-> bound(i)]

\* a call with fewer arguments than parameters has bound the rest to Null,
\* under a captured scope that binds the first parameter's name itself
C23_Witness ==
    /\ pc = "done"
    /\ operands.text = Fn_ThreeParameters
    /\ operands.args = <<Integer(2)>>
    /\ operands.captured
    /\ resultObj.Type = ARRAY_OBJ
    /\ resultObj.Elements = <<Integer(2), NULL, NULL>>
    /\ world.envs[CallCaptured].store[<<"a">>] = Integer(7)

\* a call with more arguments than parameters has bound the first ones
C23_WitnessExtra ==
    /\ pc = "done"
    /\ operands.text = Fn_OneParameter
    /\ Len(operands.args) = 3
    /\ resultObj.Type = ARRAY_OBJ
    /\ resultObj.Elements = <<operands.args[1]>>

\* a lookup of name that starts in the scope s reaches the scope e: e is s,
\* or s has no binding of name of its own and the lookup from its outer scope
\* reaches e
RECURSIVE C24_Reaches(_, _, _, _)
C24_Reaches(w, s, e, name) ==
    IF s = e THEN TRUE
    ELSE IF name \in DOMAIN w.envs[s].store \/ w.envs[s].outer = 0 THEN FALSE
    ELSE C24_Reaches(w, w.envs[s].outer, e, name)

\* C24: Set(name, v) on a scope changes the binding of name in that scope
\* and nothing else: every other name there and every binding of every other
\* scope is as before. After it Get(name) from that scope, and from every
\* scope nested in it with no binding of name of its own on the way, yields
\* v; Get(name) from the scopes outside it yields what it yielded before.
\* Get reports not-found exactly for a name that no scope of the chain binds.
C24_SetGet ==
    /\ (pc = "scope" /\ operands.op = "set")
       => LET before == operands.before
              e == operands.env
              name == operands.name
              scopes == 1..Len(world.envs)
          IN /\ Len(world.envs) = Len(before.envs)
             /\ \A s \in scopes :
                    /\ world.envs[s].outer = before.envs[s].outer
                    /\ DOMAIN world.envs[s].store
                           = DOMAIN before.envs[s].store
                                 \cup (IF s = e THEN {name} ELSE {})
                    /\ \A n \in DOMAIN before.envs[s].store :
                           (s # e \/ n # name)
                           => world.envs[s].store[n] = before.envs[s].store[n]
             /\ \A s \in scopes :
                    C24_Reaches(world, s, e, name)
                    => Get(world, s, name) = [obj |-> operands.val, ok |-> TRUE]
             /\ \A s \in scopes :
                    (s # e /\ Encloses(world, s, e))
                    => Get(world, s, name) = Get(before, s, name)
    /\ (pc = "scope" /\ operands.op = "get")
       => /\ operands.found.ok
             <=> \E s \in 1..Len(world.envs) :
                     /\ Encloses(world, s, operands.env)
                     /\ operands.name \in DOMAIN world.envs[s].store
          /\ ~operands.found.ok => operands.found.obj = GoNil

\* the middle scope has been set over a binding of the outermost scope: the
\* innermost scope reads the new value, the outermost scope its own
C24_Witness ==
    /\ pc = "scope"
    /\ operands.op = "set"
    /\ operands.env = 2
    /\ operands.name = <<"a">>
    /\ operands.val = Integer(2)
    /\ operands.before.envs[1].store = [n \in {<<"a">>} |-> Integer(1)]
    /\ Get(world, 3, <<"a">>) = [obj |-> Integer(2), ok |-> TRUE]
    /\ Get(world, 1, <<"a">>) = [obj |-> Integer(1), ok |-> TRUE]
    /\ ~Get(world, 3, <<"b">>).ok

\* a lookup has found no scope of the chain that binds the name
C24_WitnessNotFound ==
    /\ pc = "scope"
    /\ operands.op = "get"
    /\ operands.env = 3
    /\ ~operands.found.ok
    /\ DOMAIN world.envs[2].store = {<<"a">>}
    /\ operands.name = <<"b">>

\* C25: a method invoked through obj.m() resolves a free identifier of its
\* body through the scope the class was declared in: with x bound to 1 where
\* the class is declared, the method that reads x yields 1, also when obj was
\* created by nuevo in a scope that binds x to 2.
C25_MethodResolvesInClassScope ==
    (pc = "executeFile"
     /\ cmdline.source \in {Src_MethodScope, Src_MethodSameScope})
    => /\ Len(ast.p.errors) = 0
       /\ resultObj.Type = INTEGER_OBJ
       /\ resultObj.Value = 1
       /\ Get(world, 1, <<"x">>) = [obj |-> Integer(1), ok |-> TRUE]

\* the first statement of the list that returns or fails, 0 if none does
C26_Stop(kinds) ==
    IF \A j \in 1..Len(kinds) : kinds[j] = "show" THEN 0
    ELSE CHOOSE j \in 1..Len(kinds) :
             /\ kinds[j] # "show"
             /\ \A i \in 1..(j - 1) : kinds[i] = "show"

C26_WitnessError ==
    /\ pc = "executeFile"
    /\ operands.context = "si"
    /\ operands.kinds = <<"show", "show", "error">>
    /\ world.out = <<"1", "2">>
    /\ resultObj.Type = ERROR_OBJ

\* C27: ParseProgram terminates on every input: no loop of the parser (over
\* the program, a block, a class body, a parameter list, an expression list)
\* repeats without consuming a token, also on a malformed declaration or
\* method of a class body; the run never stays inside the parser.
C27_ParserLoopsAdvance ==
    /\ pc # "hung"
    /\ (pc \in {"evalProgram", "executeFile", "exited"} /\ exitCode \notin {1, 2})
       => ast.p.abort # "hang"

\* C28: every expression of a program that parsed without error yields a
\* runtime value, never Go's nil: a si whose chosen block is empty and a call
\* of a function whose body is empty yield Null, and the result can be
\* printed or used as an operand without a crash of the process.
C28_ValueNeverNil ==
    (/\ cmdline.source \in {Src_EmptyIf, Src_EmptyIfShown, Src_EmptyCallOperand}
     /\ Len(cmdline.argv) = 1
     /\ HasSuffix(cmdline.argv[1], GABY_EXTENSION)
     /\ cmdline.readable)
    => /\ pc \in {"evalProgram", "executeFile", "exited"}
          => Len(ast.p.errors) = 0
       /\ pc = "executeFile" => resultObj.Type = NULL_OBJ
       /\ pc = "exited" => exitCode = 0

\* the line feeds of a text
C30_LineFeeds(text) == Cardinality({i \in 1..Len(text) : text[i] = "\n"})

\* startRepl returns as soon as a complete input equals salir(): no prompt
\* follows such a line
C30_SalirReturns ==
    (pc \in {"prompt", "more"} /\ repl.prompts > 0) => repl.line # Salir

\* C30: on an input stream that ends startRepl returns after finitely many
\* prompts: every prompt ">> " is answered by a line of the stream or by its
\* end, and at the end of the stream the loop stops, so that there are no
\* more prompts than line feeds in the stream and one; and startRepl returns
\* as soon as a complete input line equals salir().
C30_ReplStops ==
    pc \in {"prompt", "more", "command", "returned"}
    => /\ repl.prompts <= C30_LineFeeds(cmdline.stdin) + 1
       /\ C30_SalirReturns

=============================================================================
